---- MODULE Spec2Model ----
(***************************************************************************)
(* Verification model of the trading engine:                               *)
(*   - MarketDataManager: the in-memory candle cache                       *)
(*     (src/market_data_manager.py)                                        *)
(*   - OrderExecutor: open_position, check_pending_orders and              *)
(*     cancel_all_symbol_orders (src/order_execution.py), run against a    *)
(*     model of the exchange reached through BitgetAPI (src/data_api.py)   *)
(*   - TradingStrategy: the entry and close predicates, position sizing,   *)
(*     close_position and the strategy tick                                *)
(*     (src/trading_strategy_implementation.py)                            *)
(* Each subsystem has its own specification over the shared variables.     *)
(***************************************************************************)
EXTENDS Integers, Sequences, FiniteSets, TLC

VARIABLES
    \* ---- MarketDataManager ----
    latest_candle,   \* self.latest_candle: a Candle or None
    candles_cache,   \* self.candles_cache: function timestamp -> Candle
    md_phase,        \* "constructing" (before _initialize_cache) or "running"
    last_call,       \* the last MarketDataManager call and what it was given
    upserts,         \* number of update_latest_candle calls so far
    \* ---- OrderExecutor.open_position (one call) ----
    op_pc,           \* position of the call in open_position
    order_type,      \* argument order_type: "limit" or "market"
    elapsed,         \* wait_for_order_fill: time.time() - start_time, seconds
    retry_count,     \* position confirmation polls that saw no position
    position,        \* local variable position: TRUE when truthy
    sl_attempts,     \* place_tpsl_order calls made for the stop loss
    tp_attempts,     \* place_tpsl_order calls made for the take profit
    sl_set,
    tp_set,
    op_result,       \* << >> until the call returns, then <<value returned>>
    positions,       \* self.positions: the symbols that have a record
    api_calls,       \* number of calls made so far, per BitgetAPI method
    \* ---- the exchange, as seen through BitgetAPI ----
    ex_order,        \* entry order: "none", "live", "filled", "cancelled"
    ex_position,     \* position of this attempt: "none", "pending" (filled,
                     \* not yet reported), "open", "closed"
    ex_prior,        \* a position for the symbol existed before the call
    ex_sl,           \* a stop-loss plan order was accepted
    ex_tp,           \* a take-profit plan order was accepted
    \* ---- OrderExecutor pending-order tracking ----
    pending_orders,  \* self.pending_orders, in insertion order: a sequence
                     \* of [orderId, symbol, side, size, timestamp, is_close]
    ex_pending,      \* the exchange's pending orders (all symbols)
    ex_created,      \* number of orders the exchange has accepted so far
    now,             \* time.time(), seconds
    rc_log,          \* what the last tracking operation saw and did
    market_closes,   \* history: the order ids a market close was placed
                     \* for, over all passes
    \* ---- the two coroutines that use pending_orders, step by step ----
    running,         \* the coroutine that holds the event loop: it has not
                     \* reached a suspension point since it was resumed
    pass_pc,         \* check_pending_orders: "sleep", "loop" or "adopt"
    pass_items,      \* list(self.pending_orders.items()) still to visit
    pass_fetched,    \* current_pending: the list the pass fetched
    current_time,    \* current_time of the pass
    ca_pc,           \* cancel_all_symbol_orders: "idle", "cancelling", "purge"
    ca_orders,       \* cancel_all_pending_orders: orders still to cancel
    cancel_results,  \* cancel_results collected so far
    torn,            \* history: operations that had a step of the other
                     \* coroutine between their first read and last write
    \* ---- TradingStrategy ----
    in_position,     \* self.in_position
    last_trade_time, \* self.last_trade_time, seconds
    entry_position_ratio,  \* self.entry_position_ratio, tenths of a percent
    ratio_drop_value,      \* self.ratio_drop_value, tenths of a percent
    ratio_drop_direction,  \* self.ratio_drop_direction: "none", "long", "short"
    clock,           \* time.time() as the strategy reads it, seconds
    ex_side,         \* the exchange's position for the symbol: "none",
                     \* "long" or "short"
    last_event,      \* history: when the last successful entry or detected
                     \* external close happened
    tick_log,        \* what the last strategy operation saw and did
    strategy_close,  \* history: << >>, or the time and reason of the last
                     \* close_position call of a tick that succeeded
    \* ---- pure functions of TradingStrategy, one call at a time ----
    fn_call,         \* the last call: its arguments and what it returned
    \* ---- the event loop: TradingBot and BitgetWebsocket ----
    loop_tasks,      \* asyncio.all_tasks in creation order; task 1 runs
                     \* TradingBot.start; each is [coro, pc, site, cancelling]
    loop_blocked,    \* a coroutine is running that never suspends again
    bot_tasks,       \* TradingBot.tasks: indices of loop_tasks
    is_running,      \* TradingBot.is_running
    cleanup_done,    \* TradingBot._cleanup_done is set
    awaiting,        \* cleanup: position in bot_tasks of the awaited task
    close_log,       \* history: tasks neither finished nor cancelled when
                     \* cleanup called ws.close()
    ws_state,        \* BitgetWebsocket.ws: "none", "open", "closed"
    connected,       \* BitgetWebsocket.connected
    reconnecting,    \* BitgetWebsocket.reconnecting
    processing,      \* BitgetWebsocket._processing
    subscriptions,   \* BitgetWebsocket.subscriptions
    ex_subscribed,   \* the endpoint holds a kline subscription for the socket
    feed,            \* history: "fresh", "interrupted" since the last lost
                     \* connection, "delivering" once a candle arrived after
    drops,           \* connections lost so far
    refusals,        \* connection attempts the endpoint refused so far
    signalled        \* SIGINT/SIGTERM was received

mdVars == <<latest_candle, candles_cache, md_phase, last_call, upserts>>

opVars == <<op_pc, order_type, elapsed, retry_count, position, sl_attempts,
            tp_attempts, sl_set, tp_set, op_result, positions, api_calls>>

opLocals == <<op_pc, order_type, elapsed, retry_count, position, sl_attempts,
              tp_attempts, sl_set, tp_set, op_result, api_calls>>

exVars == <<ex_order, ex_position, ex_prior, ex_sl, ex_tp>>

coVars == <<running, pass_pc, pass_items, pass_fetched, current_time,
            ca_pc, ca_orders, cancel_results, torn>>

rcVars == <<pending_orders, ex_pending, ex_created, now, rc_log,
            market_closes, coVars>>

stVars == <<in_position, last_trade_time, entry_position_ratio,
            ratio_drop_value, ratio_drop_direction, clock, ex_side,
            last_event, tick_log, strategy_close>>

fnVars == <<fn_call>>

tsVars == <<stVars, fnVars>>

wsVars == <<ws_state, connected, reconnecting, processing, subscriptions,
            ex_subscribed>>

botVars == <<bot_tasks, is_running, cleanup_done, awaiting, close_log>>

envVars == <<feed, drops, refusals, signalled>>

evVars == <<loop_tasks, loop_blocked, botVars, wsVars, envVars>>

vars == <<latest_candle, candles_cache, md_phase, last_call, upserts,
          op_pc, order_type, elapsed, retry_count, position, sl_attempts,
          tp_attempts, sl_set, tp_set, op_result, positions, api_calls,
          ex_order, ex_position, ex_prior, ex_sl, ex_tp,
          pending_orders, ex_pending, ex_created, now, rc_log, market_closes,
          running, pass_pc, pass_items, pass_fetched, current_time,
          ca_pc, ca_orders, cancel_results, torn,
          in_position, last_trade_time, entry_position_ratio,
          ratio_drop_value, ratio_drop_direction, clock, ex_side,
          last_event, tick_log, strategy_close, fn_call,
          loop_tasks, loop_blocked, bot_tasks, is_running, cleanup_done,
          awaiting, close_log, ws_state, connected, reconnecting, processing,
          subscriptions, ex_subscribed, feed, drops, refusals, signalled>>

None == [none |-> TRUE]

Symbol == "BTCUSDT"

NoCalls == [place_order |-> 0, cancel_order |-> 0, close_position |-> 0,
            place_tpsl_order |-> 0, get_position |-> 0, get_order_detail |-> 0]

\* Neither coroutine has started an operation on pending_orders.
CoQuiet ==
    /\ running = "none"
    /\ pass_pc = "sleep"
    /\ pass_items = << >>
    /\ pass_fetched = << >>
    /\ current_time = 0
    /\ ca_pc = "idle"
    /\ ca_orders = << >>
    /\ cancel_results = << >>
    /\ torn = {}

\* Pending-order tracking before any order exists.
RcQuiet ==
    /\ pending_orders = << >>
    /\ ex_pending = {}
    /\ ex_created = 0
    /\ now = 0
    /\ rc_log = [op |-> "none"]
    /\ market_closes = << >>
    /\ CoQuiet

\* The locals of open_position and the exchange before any call.
OpQuietLocals ==
    /\ op_pc = "idle"
    /\ order_type = "limit"
    /\ elapsed = 0
    /\ retry_count = 0
    /\ position = FALSE
    /\ sl_attempts = 0
    /\ tp_attempts = 0
    /\ sl_set = FALSE
    /\ tp_set = FALSE
    /\ op_result = << >>
    /\ api_calls = NoCalls
    /\ ex_order = "none"
    /\ ex_position = "none"
    /\ ex_prior = FALSE
    /\ ex_sl = FALSE
    /\ ex_tp = FALSE

\* The executor and the exchange before any open_position call.
OpQuiet ==
    /\ OpQuietLocals
    /\ positions = {}

MinTradeInterval == 120

\* No pure-function call has been made.
FnQuiet == fn_call = [op |-> "none"]

\* TradingStrategy as __init__ leaves it, the exchange without a position.
StQuiet ==
    /\ in_position = FALSE
    /\ last_trade_time = 0
    /\ entry_position_ratio = 0
    /\ ratio_drop_value = 0
    /\ ratio_drop_direction = "none"
    /\ clock = MinTradeInterval
    /\ ex_side = "none"
    /\ last_event = 0
    /\ tick_log = [op |-> "none"]
    /\ strategy_close = << >>

\* A TradingBot whose start() has not run yet: no socket, no subscription,
\* the one task that will run start().
Task(coro) == [coro |-> coro, pc |-> "start", site |-> "none", cancelling |-> FALSE]

EvQuiet ==
    /\ loop_tasks = <<Task("start")>>
    /\ loop_blocked = FALSE
    /\ bot_tasks = << >>
    /\ is_running = FALSE
    /\ cleanup_done = FALSE
    /\ awaiting = 0
    /\ close_log = {}
    /\ ws_state = "none"
    /\ connected = FALSE
    /\ reconnecting = FALSE
    /\ processing = FALSE
    /\ subscriptions = << >>
    /\ ex_subscribed = FALSE
    /\ feed = "fresh"
    /\ drops = 0
    /\ refusals = 0
    /\ signalled = FALSE

\* The candle cache while another subsystem is explored.
MdQuiet ==
    /\ latest_candle = None
    /\ candles_cache = << >>
    /\ md_phase = "running"
    /\ last_call = [op |-> "none"]
    /\ upserts = 0

(***************************************************************************)
(* Candle cache                                                            *)
(***************************************************************************)

\* if len(self.candles_cache) > 200
NMax == 200

\* Feed timestamps lie within EdgeWidth of either end of a full window.
EdgeWidth == 1
\* update_latest_candle calls explored per behaviour.
MaxUpserts == 2
\* Candles in one get_kline_history response.
MaxKline == 2

WarmLo == EdgeWidth + 1
FeedTs == (1 .. (WarmLo + EdgeWidth - 1))
          \cup ((WarmLo + NMax - 1 - EdgeWidth) .. (WarmLo + NMax - 1 + EdgeWidth))
\* The OHLCV payload of a candle; the five floats travel together, one value
\* stands for the tuple.
Closes == {1, 2}

\* @dataclass Candle
Candle(ts, c) == [timestamp |-> ts, close |-> c]
FeedCandles == {Candle(ts, c) : ts \in FeedTs, c \in Closes}

EmptyCache == [t \in {} |-> None]

Min(S) == CHOOSE x \in S : \A y \in S : x <= y
Max(S) == CHOOSE x \in S : \A y \in S : x >= y

\* A store that keeps the candle already held under the timestamp.
CachePut_KeepExisting(cache, candle) ==
    [t \in (DOMAIN cache) \cup {candle.timestamp} |->
        IF t \in DOMAIN cache THEN cache[t] ELSE candle]

\* self.candles_cache[candle.timestamp] = candle
CachePut(cache, candle) ==
    [t \in (DOMAIN cache) \cup {candle.timestamp} |->
        IF t = candle.timestamp THEN candle ELSE cache[t]]

\* del self.candles_cache[ts]
CacheDel(cache, ts) == [t \in (DOMAIN cache) \ {ts} |-> cache[t]]

\* An eviction whose size test is off by one.
EvictOldest_OffByOne(cache) ==
    IF Cardinality(DOMAIN cache) > NMax + 1
    THEN CacheDel(cache, Min(DOMAIN cache))
    ELSE cache

\* An eviction that removes the newest entry.
EvictOldest_Newest(cache) ==
    IF Cardinality(DOMAIN cache) > NMax
    THEN CacheDel(cache, Max(DOMAIN cache))
    ELSE cache

\* if len(self.candles_cache) > 200: delete the entry of min(keys)
EvictOldest(cache) ==
    IF Cardinality(DOMAIN cache) > NMax
    THEN CacheDel(cache, Min(DOMAIN cache))
    ELSE cache

\* The cache a feed delivering minutes in order leaves behind: n consecutive
\* minutes from WarmLo on.
WarmCache(n) == [t \in WarmLo .. (WarmLo + n - 1) |-> Candle(t, 1)]

RECURSIVE PutAll(_, _)
\* for candle in candles: self.candles_cache[timestamp] = candle_obj
PutAll(cache, candles) ==
    IF candles = <<>> THEN cache
    ELSE PutAll(CachePut(cache, Head(candles)), Tail(candles))

KlineResponses == UNION {[1 .. n -> FeedCandles] : n \in 0 .. MaxKline}

\* State after __init__ has set the fields (before _initialize_cache), or a
\* running manager whose feed has delivered NMax-1 or NMax minutes in order.
MdInit ==
    /\ OpQuiet
    /\ RcQuiet
    /\ StQuiet
    /\ FnQuiet
    /\ EvQuiet
    /\ upserts = 0
    /\ last_call = [op |-> "none"]
    /\ \/ /\ md_phase = "constructing"
          /\ latest_candle = None
          /\ candles_cache = EmptyCache
       \/ /\ md_phase = "running"
          /\ \E n \in {NMax - 1, NMax} :
                /\ candles_cache = WarmCache(n)
                /\ latest_candle = Candle(WarmLo + n - 1, 1)

\* _initialize_cache: the history fetch fails (None, or a code other than
\* '00000', or no api): nothing is stored.
InitializeCacheFailed ==
    /\ md_phase = "constructing"
    /\ md_phase' = "running"
    /\ last_call' = [op |-> "init_failed"]
    /\ UNCHANGED <<latest_candle, candles_cache, upserts>>
    /\ UNCHANGED <<opVars, exVars, rcVars, tsVars, evVars>>

\* _initialize_cache: every candle of the response is cached and
\* latest_candle is set from candles[0].
InitializeCacheOk ==
    /\ md_phase = "constructing"
    /\ \E candles \in KlineResponses :
        /\ candles_cache' = PutAll(candles_cache, candles)
        /\ latest_candle' = IF candles # <<>> THEN Head(candles) ELSE latest_candle
        /\ last_call' = [op |-> "init_ok", candles |-> candles]
    /\ md_phase' = "running"
    /\ UNCHANGED upserts
    /\ UNCHANGED <<opVars, exVars, rcVars, tsVars, evVars>>

\* _initialize_cache: the database raises (cursor.execute or commit) after k
\* candles were cached; the except clause logs, latest_candle stays unset.
InitializeCacheRaised ==
    /\ md_phase = "constructing"
    /\ \E candles \in KlineResponses : \E k \in 1 .. Len(candles) :
        /\ candles_cache' = PutAll(candles_cache, SubSeq(candles, 1, k))
        /\ last_call' = [op |-> "init_raised", candles |-> SubSeq(candles, 1, k)]
    /\ md_phase' = "running"
    /\ UNCHANGED <<latest_candle, upserts>>
    /\ UNCHANGED <<opVars, exVars, rcVars, tsVars, evVars>>

\* update_latest_candle(candle)
update_latest_candle(candle) ==
    /\ latest_candle' = candle
    /\ candles_cache' = EvictOldest(CachePut(candles_cache, candle))

UpdateLatestCandle ==
    /\ md_phase = "running"
    /\ upserts < MaxUpserts
    /\ \E candle \in FeedCandles :
        /\ update_latest_candle(candle)
        /\ last_call' = [op |-> "update", candle |-> candle]
    /\ upserts' = upserts + 1
    /\ UNCHANGED md_phase
    /\ UNCHANGED <<opVars, exVars, rcVars, tsVars, evVars>>

MdNext ==
    \/ InitializeCacheFailed
    \/ InitializeCacheOk
    \/ InitializeCacheRaised
    \/ UpdateLatestCandle

SpecCache == MdInit /\ [][MdNext]_vars

(***************************************************************************)
(* Candle cache: properties                                                *)
(***************************************************************************)

CacheSize == Cardinality(DOMAIN candles_cache)

\* The step is an update_latest_candle call.
IsUpdateStep == upserts' = upserts + 1
UpdArg == last_call'.candle

\* C3: after every update_latest_candle call (from any cache of at most 200
\* candles) the cache holds at most 200 candles.
C3_CacheAtMostNMax == CacheSize <= NMax

\* C3 witness: an update on a full cache has evicted the oldest minute.
C3_Witness ==
    /\ last_call.op = "update"
    /\ CacheSize = NMax
    /\ WarmLo \notin DOMAIN candles_cache
    /\ upserts = MaxUpserts

\* C4: an update with a timestamp not yet cached, on a cache of 200 candles,
\* removes exactly the minimum timestamp of the 201 and keeps every other
\* entry as it was.
C4_EvictsExactlyMin ==
    [][(/\ IsUpdateStep
        /\ CacheSize = NMax
        /\ UpdArg.timestamp \notin DOMAIN candles_cache)
       => LET all == (DOMAIN candles_cache) \cup {UpdArg.timestamp}
              old == Min(all)
          IN /\ DOMAIN candles_cache' = all \ {old}
             /\ \A t \in DOMAIN candles_cache' :
                   candles_cache'[t] =
                       IF t = UpdArg.timestamp THEN UpdArg ELSE candles_cache[t]]_vars

\* C4 witness: the first update of a full window brought the minute after
\* the window, and the window's first minute is gone.
C4_Witness ==
    /\ upserts = 1
    /\ last_call.op = "update"
    /\ last_call.candle.timestamp = WarmLo + NMax
    /\ WarmLo \notin DOMAIN candles_cache
    /\ CacheSize = NMax

\* C5: latest_candle is the cached candle of maximum timestamp, and is absent
\* exactly when the cache is empty.
C5_LatestIsMaxCached ==
    IF DOMAIN candles_cache = {}
    THEN latest_candle = None
    ELSE latest_candle = candles_cache[Max(DOMAIN candles_cache)]

\* C6: an update whose timestamp is already cached replaces the stored
\* candle, keeps the size and every other entry, and a second identical
\* update changes nothing.
C6_OverwriteInPlace ==
    [][(/\ IsUpdateStep
        /\ UpdArg.timestamp \in DOMAIN candles_cache)
       => /\ DOMAIN candles_cache' = DOMAIN candles_cache
          /\ candles_cache'[UpdArg.timestamp] = UpdArg
          /\ \A t \in (DOMAIN candles_cache) \ {UpdArg.timestamp} :
                candles_cache'[t] = candles_cache[t]
          /\ EvictOldest(CachePut(candles_cache', UpdArg)) = candles_cache'
          /\ latest_candle' = UpdArg]_vars

\* C6 witness: the first update of a full window rewrote the window's first
\* minute with a new payload.
C6_Witness ==
    /\ upserts = 1
    /\ last_call.op = "update"
    /\ last_call.candle = Candle(WarmLo, 2)
    /\ CacheSize = NMax
    /\ WarmLo \in DOMAIN candles_cache
    /\ candles_cache[WarmLo].close = 2

\* C7: right after update_latest_candle(c) returns, the cache holds c under
\* c.timestamp, also at capacity with c older than every cached candle.
C7_UpsertNeverDropped ==
    last_call.op = "update" =>
        /\ last_call.candle.timestamp \in DOMAIN candles_cache
        /\ candles_cache[last_call.candle.timestamp] = last_call.candle

\* C37: after an update_latest_candle call, latest_candle is absent or is
\* the candle the cache holds under latest_candle.timestamp: it is never a
\* candle that is not (or no longer) cached.
C37_LatestIsCached ==
    last_call.op = "update" =>
        \/ latest_candle = None
        \/ /\ latest_candle.timestamp \in DOMAIN candles_cache
           /\ candles_cache[latest_candle.timestamp] = latest_candle

(***************************************************************************)
(* OrderExecutor.open_position against the exchange                        *)
(***************************************************************************)

\* wait_for_order_fill(symbol, order_id, timeout=30)
FillTimeout == 30
\* while retry_count < 5
ConfirmPolls == 5
\* for attempt in range(3)
TpslAttempts == 3

\* The longest a status poll takes, in seconds.
MaxPollCost == 10
\* Seconds one status poll takes: the 1 s sleep alone, or sleep and a slow
\* request.
PollCosts == {1, MaxPollCost}
OrderTypes == {"limit", "market"}

Called(method) == [api_calls EXCEPT ![method] = @ + 1]

\* What api.get_position can return: None (FALSE) on any transport or API
\* error, on any exception raised while the Position record is built from
\* the response, and when the exchange reports no position; a Position
\* (TRUE) only when the exchange holds one for the symbol. The gateway is
\* taken at its interface, get_position(symbol) -> Position | None: with the
\* 19-field Position of models.py the 8-argument constructor call of
\* get_position raises, which is the None outcome here.
GetPositionResults ==
    {FALSE} \cup (IF ex_prior \/ ex_position = "open" THEN {TRUE} ELSE {})

\* What a get_order_detail poll can observe: the order's state, or "error"
\* (a code other than '00000', or an exception caught in the loop).
OrderDetailResults == {ex_order, "error"}

\* Outcomes of api.cancel_order: "ok" only for a live order; "error" is an
\* error response; "raise" an exception of the unguarded request.
CancelResults == (IF ex_order = "live" THEN {"ok"} ELSE {}) \cup {"error", "raise"}

\* Outcomes of api.place_tpsl_order (its request is guarded: no exception).
TpslResults ==
    (IF ex_prior \/ ex_position = "open" THEN {"ok"} ELSE {}) \cup {"error"}

\* Outcomes of api.close_position (unguarded request).
CloseResults ==
    (IF ex_prior \/ ex_position = "open" THEN {"ok"} ELSE {}) \cup {"error", "raise"}

\* The exchange after a close-positions request with the given outcome.
ClosePositionEffect(outcome) ==
    IF outcome = "ok"
    THEN /\ ex_position' = (IF ex_position = "open" THEN "closed" ELSE ex_position)
         /\ ex_prior' = FALSE
    ELSE UNCHANGED <<ex_position, ex_prior>>

Return(value) ==
    /\ op_pc' = "returned"
    /\ op_result' = <<value>>

\* A rollback test that is satisfied by either protective order.
ProtectionComplete_Either(sl, tp) == sl \/ tp

\* if not (sl_set and tp_set): close and return False
ProtectionComplete(sl, tp) == sl /\ tp

\* A confirmation loop that gives up one poll early.
ConfirmExhausted_Early(n) == n >= ConfirmPolls - 1

\* while retry_count < 5 has run out
ConfirmExhausted(n) == n >= ConfirmPolls

\* A retry loop with one attempt more.
TpslExhausted_Extra(n) == n >= TpslAttempts + 1

\* for attempt in range(3) has run out
TpslExhausted(n) == n >= TpslAttempts

OpInit ==
    /\ op_pc = "idle"
    /\ order_type \in OrderTypes
    /\ elapsed = 0
    /\ retry_count = 0
    /\ position = FALSE
    /\ sl_attempts = 0
    /\ tp_attempts = 0
    /\ sl_set = FALSE
    /\ tp_set = FALSE
    /\ op_result = << >>
    /\ positions = {}
    /\ api_calls = NoCalls
    /\ ex_order = "none"
    /\ ex_position = "none"
    /\ ex_prior \in BOOLEAN
    /\ ex_sl = FALSE
    /\ ex_tp = FALSE

\* An entry check that lets the call go on whatever the exchange reported.
ExistingBlocks_Never(pos) == FALSE

\* if position: return False
ExistingBlocks(pos) == pos

\* open_position entry: position = self.api.get_position(symbol); a truthy
\* result returns False, otherwise set_leverage (a stub) and on to the order.
CheckExisting ==
    /\ op_pc = "idle"
    /\ \E pos \in GetPositionResults :
        /\ position' = pos
        /\ IF ExistingBlocks(pos)
           THEN Return(FALSE)
           ELSE /\ op_pc' = "place_entry"
                /\ UNCHANGED op_result
    /\ api_calls' = Called("get_position")
    /\ UNCHANGED <<order_type, elapsed, retry_count, sl_attempts,
                   tp_attempts, sl_set, tp_set, positions>>
    /\ UNCHANGED exVars
    /\ UNCHANGED <<mdVars, rcVars, tsVars, evVars>>

\* response = self.api.place_order(**order_params) accepted: a limit order
\* rests at the exchange, a market order is filled on arrival.
PlaceEntryAccepted ==
    /\ op_pc = "place_entry"
    /\ api_calls' = Called("place_order")
    /\ IF order_type = "limit"
       THEN /\ ex_order' = "live"
            /\ op_pc' = "wait_fill"
            /\ UNCHANGED ex_position
       ELSE /\ ex_order' = "filled"
            /\ ex_position' = "pending"
            /\ op_pc' = "confirm"
    /\ UNCHANGED <<order_type, elapsed, retry_count, position, sl_attempts,
                   tp_attempts, sl_set, tp_set, op_result, positions>>
    /\ UNCHANGED <<ex_prior, ex_sl, ex_tp>>
    /\ UNCHANGED <<mdVars, rcVars, tsVars, evVars>>

\* place_order answered with a code other than '00000' (or its request
\* raised, which place_order turns into an error response): return False.
PlaceEntryRejected ==
    /\ op_pc = "place_entry"
    /\ api_calls' = Called("place_order")
    /\ Return(FALSE)
    /\ UNCHANGED <<order_type, elapsed, retry_count, position, sl_attempts,
                   tp_attempts, sl_set, tp_set, positions>>
    /\ UNCHANGED exVars
    /\ UNCHANGED <<mdVars, rcVars, tsVars, evVars>>

\* A fill test that also takes a resting order for a filled one.
IsFilled_OrLive(status) == status \in {"filled", "live"}

\* if status == 'filled': return True
IsFilled(status) == status = "filled"

\* A wait loop whose time test never fails.
WaitExpired_Never(t) == FALSE

\* while time.time() - start_time < timeout has run out
WaitExpired(t) == t >= FillTimeout

\* One iteration of wait_for_order_fill while time.time() - start_time <
\* timeout: 'filled' goes on to the confirmation, 'cancelled' returns False
\* from open_position after its cancel_order call, anything else sleeps.
PollFill ==
    /\ op_pc = "wait_fill"
    /\ ~WaitExpired(elapsed)
    /\ api_calls' = Called("get_order_detail")
    /\ \E status \in OrderDetailResults :
        CASE IsFilled(status) ->
                /\ op_pc' = "confirm"
                /\ UNCHANGED elapsed
          [] status = "cancelled" ->
                /\ op_pc' = "cancel_unfilled"
                /\ UNCHANGED elapsed
          [] OTHER ->
                /\ \E cost \in PollCosts : elapsed' = elapsed + cost
                /\ UNCHANGED op_pc
    /\ UNCHANGED <<order_type, retry_count, position, sl_attempts,
                   tp_attempts, sl_set, tp_set, op_result, positions>>
    /\ UNCHANGED exVars
    /\ UNCHANGED <<mdVars, rcVars, tsVars, evVars>>

\* wait_for_order_fill ran out of time and returned False.
FillTimedOut ==
    /\ op_pc = "wait_fill"
    /\ WaitExpired(elapsed)
    /\ op_pc' = "cancel_unfilled"
    /\ UNCHANGED <<order_type, elapsed, retry_count, position, sl_attempts,
                   tp_attempts, sl_set, tp_set, op_result, positions, api_calls>>
    /\ UNCHANGED exVars
    /\ UNCHANGED <<mdVars, rcVars, tsVars, evVars>>

\* if not order_filled: self.api.cancel_order(symbol, order_id); return False.
\* The response is not looked at; an exception goes to the except clause.
CancelUnfilled ==
    /\ op_pc = "cancel_unfilled"
    /\ api_calls' = Called("cancel_order")
    /\ \E outcome \in CancelResults :
        /\ ex_order' = (IF outcome = "ok" THEN "cancelled" ELSE ex_order)
        /\ IF outcome = "raise"
           THEN /\ op_pc' = "except"
                /\ UNCHANGED op_result
           ELSE Return(FALSE)
    /\ UNCHANGED <<order_type, elapsed, retry_count, position, sl_attempts,
                   tp_attempts, sl_set, tp_set, positions>>
    /\ UNCHANGED <<ex_position, ex_prior, ex_sl, ex_tp>>
    /\ UNCHANGED <<mdVars, rcVars, tsVars, evVars>>

\* One iteration of the confirmation loop: position =
\* self.api.get_position(symbol); break when truthy, else retry_count += 1;
\* after the loop, if not position: return False.
ConfirmPoll ==
    /\ op_pc = "confirm"
    /\ ~ConfirmExhausted(retry_count)
    /\ api_calls' = Called("get_position")
    /\ \E pos \in GetPositionResults :
        IF pos
        THEN /\ position' = TRUE
             /\ op_pc' = "place_sl"
             /\ UNCHANGED <<retry_count, op_result>>
        ELSE /\ retry_count' = retry_count + 1
             /\ UNCHANGED position
             /\ IF ConfirmExhausted(retry_count + 1)
                THEN Return(FALSE)
                ELSE UNCHANGED <<op_pc, op_result>>
    /\ UNCHANGED <<order_type, elapsed, sl_attempts, tp_attempts, sl_set,
                   tp_set, positions>>
    /\ UNCHANGED exVars
    /\ UNCHANGED <<mdVars, rcVars, tsVars, evVars>>

\* One attempt of the stop-loss loop: success sets sl_set and leaves the
\* loop; the loop also ends after its last attempt.
PlaceStopLoss ==
    /\ op_pc = "place_sl"
    /\ api_calls' = Called("place_tpsl_order")
    /\ sl_attempts' = sl_attempts + 1
    /\ \E outcome \in TpslResults :
        IF outcome = "ok"
        THEN /\ sl_set' = TRUE
             /\ ex_sl' = TRUE
             /\ op_pc' = "place_tp"
        ELSE /\ UNCHANGED <<sl_set, ex_sl>>
             /\ op_pc' = (IF TpslExhausted(sl_attempts + 1) THEN "place_tp" ELSE "place_sl")
    /\ UNCHANGED <<order_type, elapsed, retry_count, position, tp_attempts,
                   tp_set, op_result, positions>>
    /\ UNCHANGED <<ex_order, ex_position, ex_prior, ex_tp>>
    /\ UNCHANGED <<mdVars, rcVars, tsVars, evVars>>

\* One attempt of the take-profit loop.
PlaceTakeProfit ==
    /\ op_pc = "place_tp"
    /\ api_calls' = Called("place_tpsl_order")
    /\ tp_attempts' = tp_attempts + 1
    /\ \E outcome \in TpslResults :
        IF outcome = "ok"
        THEN /\ tp_set' = TRUE
             /\ ex_tp' = TRUE
             /\ op_pc' = "finish"
        ELSE /\ UNCHANGED <<tp_set, ex_tp>>
             /\ op_pc' = (IF TpslExhausted(tp_attempts + 1) THEN "finish" ELSE "place_tp")
    /\ UNCHANGED <<order_type, elapsed, retry_count, position, sl_attempts,
                   sl_set, op_result, positions>>
    /\ UNCHANGED <<ex_order, ex_position, ex_prior, ex_sl>>
    /\ UNCHANGED <<mdVars, rcVars, tsVars, evVars>>

\* Both protective orders are in place: self.positions[symbol] =
\* Position(...); return True.
RecordPosition ==
    /\ op_pc = "finish"
    /\ ProtectionComplete(sl_set, tp_set)
    /\ positions' = positions \cup {Symbol}
    /\ Return(TRUE)
    /\ UNCHANGED <<order_type, elapsed, retry_count, position, sl_attempts,
                   tp_attempts, sl_set, tp_set, api_calls>>
    /\ UNCHANGED exVars
    /\ UNCHANGED <<mdVars, rcVars, tsVars, evVars>>

\* if not (sl_set and tp_set): self.api.close_position(symbol); return
\* False. The response is not looked at; an exception goes to the except
\* clause.
RollbackClose ==
    /\ op_pc = "finish"
    /\ ~ProtectionComplete(sl_set, tp_set)
    /\ api_calls' = Called("close_position")
    /\ \E outcome \in CloseResults :
        /\ ClosePositionEffect(outcome)
        /\ IF outcome = "raise"
           THEN /\ op_pc' = "except"
                /\ UNCHANGED op_result
           ELSE Return(FALSE)
    /\ UNCHANGED <<order_type, elapsed, retry_count, position, sl_attempts,
                   tp_attempts, sl_set, tp_set, positions>>
    /\ UNCHANGED <<ex_order, ex_sl, ex_tp>>
    /\ UNCHANGED <<mdVars, rcVars, tsVars, evVars>>

\* except Exception: try self.api.close_position(symbol), whose own
\* exception is logged; return False.
ExceptClose ==
    /\ op_pc = "except"
    /\ api_calls' = Called("close_position")
    /\ \E outcome \in CloseResults : ClosePositionEffect(outcome)
    /\ Return(FALSE)
    /\ UNCHANGED <<order_type, elapsed, retry_count, position, sl_attempts,
                   tp_attempts, sl_set, tp_set, positions>>
    /\ UNCHANGED <<ex_order, ex_sl, ex_tp>>
    /\ UNCHANGED <<mdVars, rcVars, tsVars, evVars>>

\* The exchange matches the resting entry order.
ExchangeFill ==
    /\ ex_order = "live"
    /\ ex_order' = "filled"
    /\ ex_position' = "pending"
    /\ UNCHANGED <<ex_prior, ex_sl, ex_tp>>
    /\ UNCHANGED opVars
    /\ UNCHANGED <<mdVars, rcVars, tsVars, evVars>>

\* The exchange starts reporting the position of the filled order.
ExchangeMaterialize ==
    /\ ex_position = "pending"
    /\ ex_position' = "open"
    /\ UNCHANGED <<ex_order, ex_prior, ex_sl, ex_tp>>
    /\ UNCHANGED opVars
    /\ UNCHANGED <<mdVars, rcVars, tsVars, evVars>>

\* The resting entry order is cancelled from outside this call (the
\* reconciliation task, the exchange, the account owner).
ExchangeCancel ==
    /\ ex_order = "live"
    /\ ex_order' = "cancelled"
    /\ UNCHANGED <<ex_position, ex_prior, ex_sl, ex_tp>>
    /\ UNCHANGED opVars
    /\ UNCHANGED <<mdVars, rcVars, tsVars, evVars>>

OpNext ==
    \/ CheckExisting
    \/ PlaceEntryAccepted
    \/ PlaceEntryRejected
    \/ PollFill
    \/ FillTimedOut
    \/ CancelUnfilled
    \/ ConfirmPoll
    \/ PlaceStopLoss
    \/ PlaceTakeProfit
    \/ RecordPosition
    \/ RollbackClose
    \/ ExceptClose
    \/ ExchangeFill
    \/ ExchangeMaterialize
    \/ ExchangeCancel

InitOpen == EvQuiet /\ MdQuiet /\ RcQuiet /\ StQuiet /\ FnQuiet /\ OpInit

SpecOpen == InitOpen /\ [][OpNext]_vars

(***************************************************************************)
(* open_position: properties                                               *)
(***************************************************************************)

\* C1: once open_position has returned, the exchange holds no position
\* created by the attempt unless the call returned True with both the
\* stop-loss and the take-profit placed.
C1_NoUnprotectedPosition ==
    (op_pc = "returned" /\ ex_position = "open")
        => (op_result = <<TRUE>> /\ ex_sl /\ ex_tp)

\* The entry filled, the position was confirmed, and one of the protective
\* orders failed on each of its 3 attempts.
ProtectionFailed ==
    /\ position
    /\ \/ (~sl_set /\ sl_attempts = TpslAttempts)
       \/ (~tp_set /\ tp_attempts = TpslAttempts)

\* C2: when a protective order has failed 3 times after a confirmed fill,
\* the call has called close_position by the time it returns, returns False
\* and leaves no record for the symbol in self.positions.
C2_RollbackOnProtectionFailure ==
    (op_pc = "returned" /\ ProtectionFailed)
        => /\ api_calls.close_position >= 1
           /\ op_result = <<FALSE>>
           /\ Symbol \notin positions

\* C2 witness: the stop loss was placed, the take profit failed 3 times, and
\* the call returned False after one close_position call.
C2_Witness ==
    /\ op_pc = "returned"
    /\ position
    /\ sl_set
    /\ ~tp_set
    /\ tp_attempts = TpslAttempts
    /\ api_calls.close_position = 1
    /\ op_result = <<FALSE>>

C15_ConfirmOnlyAfterFilled ==
    [][/\ (op_pc = "wait_fill" /\ op_pc' = "confirm")
            => /\ ex_order = "filled"
               /\ elapsed < FillTimeout
               /\ api_calls'.get_order_detail = api_calls.get_order_detail + 1
       /\ (op_pc = "wait_fill" /\ op_pc' # "wait_fill")
            => op_pc' \in {"confirm", "cancel_unfilled"}
       /\ (op_pc = "cancel_unfilled" /\ op_pc' # "cancel_unfilled")
            => /\ api_calls'.cancel_order = api_calls.cancel_order + 1
               /\ api_calls.get_position = 1
               /\ op_pc' \in {"returned", "except"}
               /\ op_pc' = "returned" => op_result' = <<FALSE>>
       /\ (op_pc = "except" /\ op_pc' # "except")
            => (op_pc' = "returned" /\ op_result' = <<FALSE>>)]_vars

\* C15 witness: a limit entry whose wait ran out of time, after which
\* cancel_order was called and the call returned False without any
\* confirmation poll.
C15_Witness ==
    /\ order_type = "limit"
    /\ op_pc = "returned"
    /\ elapsed >= FillTimeout
    /\ api_calls.cancel_order = 1
    /\ api_calls.get_position = 1
    /\ op_result = <<FALSE>>

\* C29: in an open_position call place_tpsl_order is called only after a
\* confirmation poll reported the position; the stop-loss loop and the
\* take-profit loop make at most 3 calls each, none after the kind's first
\* success; the stop-loss loop is always followed by the take-profit loop,
\* which makes its first attempt whatever the stop-loss outcome was.
C29_ProtectiveAttempts ==
    [][/\ api_calls'.place_tpsl_order = sl_attempts' + tp_attempts'
       /\ api_calls'.place_tpsl_order > 0
            => (position' /\ api_calls'.place_order = 1 /\ api_calls'.get_position >= 2)
       /\ sl_attempts' <= TpslAttempts
       /\ tp_attempts' <= TpslAttempts
       /\ sl_attempts' > sl_attempts => (~sl_set /\ sl_attempts' = sl_attempts + 1)
       /\ tp_attempts' > tp_attempts => (~tp_set /\ tp_attempts' = tp_attempts + 1)
       /\ (op_pc = "place_sl" /\ op_pc' # "place_sl")
            => (op_pc' = "place_tp" /\ (sl_set' \/ sl_attempts' = TpslAttempts))
       /\ (sl_attempts' > 0 /\ op_pc' \in {"finish", "except", "returned"})
            => tp_attempts' >= 1
       /\ (op_pc = "place_tp" /\ op_pc' # "place_tp")
            => (op_pc' = "finish" /\ (tp_set' \/ tp_attempts' = TpslAttempts))]_vars

\* C29 witness: all 3 stop-loss attempts failed, the take profit was then
\* placed at its first attempt, and the call has returned.
C29_Witness ==
    /\ op_pc = "returned"
    /\ position
    /\ sl_attempts = TpslAttempts
    /\ ~sl_set
    /\ tp_attempts = 1
    /\ tp_set
    /\ api_calls.place_tpsl_order = TpslAttempts + 1

\* C30: once the entry order is placed, every get_position call is a
\* confirmation poll and at most 5 are made; the call gives up exactly when
\* the fifth poll reported no position, and then it has returned False with
\* no place_tpsl_order call, no close_position call and no record in
\* self.positions; the poll that reports a position is the last one and is
\* followed by the stop-loss placement.
C30_ConfirmationPolls ==
    [][/\ api_calls'.place_order = 1
            => api_calls'.get_position = 1 + retry_count' + (IF position' THEN 1 ELSE 0)
       /\ retry_count' <= ConfirmPolls
       /\ (op_pc = "confirm" /\ op_pc' # "confirm")
            => \/ /\ position'
                  /\ op_pc' = "place_sl"
                  /\ retry_count' = retry_count
               \/ /\ ~position'
                  /\ retry_count' = ConfirmPolls
                  /\ op_pc' = "returned"
                  /\ op_result' = <<FALSE>>
       /\ (retry_count' = ConfirmPolls)
            => /\ ~position'
               /\ op_pc' = "returned"
               /\ op_result' = <<FALSE>>
               /\ api_calls'.place_tpsl_order = 0
               /\ api_calls'.close_position = 0
               /\ Symbol \notin positions'
       /\ (position /\ api_calls.place_order = 1)
            => api_calls'.get_position = api_calls.get_position]_vars

\* C30 witness: a market entry whose 5 confirmation polls all reported no
\* position; the call returned False without protective order, close or
\* record.
C30_Witness ==
    /\ order_type = "market"
    /\ op_pc = "returned"
    /\ op_result = <<FALSE>>
    /\ retry_count = ConfirmPolls
    /\ api_calls.get_position = 1 + ConfirmPolls
    /\ api_calls.place_tpsl_order = 0
    /\ api_calls.close_position = 0
    /\ positions = {}

\* A step of the open_position call itself.
OpStep ==
    \/ CheckExisting
    \/ PlaceEntryAccepted
    \/ PlaceEntryRejected
    \/ PollFill
    \/ FillTimedOut
    \/ CancelUnfilled
    \/ ConfirmPoll
    \/ PlaceStopLoss
    \/ PlaceTakeProfit
    \/ RecordPosition
    \/ RollbackClose
    \/ ExceptClose

\* The event loop resumes the call after each of its sleeps, and every
\* BitgetAPI request is answered or raises; the exchange owes nothing.
OpFairness == WF_vars(OpStep)

SpecOpenFair == SpecOpen /\ OpFairness

\* The call has returned True or False.
Returned == op_pc = "returned" /\ op_result \in {<<TRUE>>, <<FALSE>>}

OrderCheckInterval == 10
\* current_time - order_time > 20
CloseTimeout == 20
\* current_time - order_time > 30
EntryTimeout == 30

\* The clock runs until an entry order accepted at the start has timed out.
MaxNow == EntryTimeout + OrderCheckInterval
\* Orders the exchange accepts per behaviour.
MaxOrders == 2
\* Orders are accepted during the first MaxAcceptTicks sleeps.
MaxAcceptTicks == 0

Symbols == {"BTCUSDT", "ETHUSDT"}
Size == "0.01"
\* The orders the exchange is given: entries and limit closes of the traded
\* symbol, and an order of another symbol.
OrderKinds ==
    {[symbol |-> "BTCUSDT", side |-> "buy", tradeSide |-> "open"],
     [symbol |-> "BTCUSDT", side |-> "sell", tradeSide |-> "close"],
     [symbol |-> "ETHUSDT", side |-> "buy", tradeSide |-> "open"]}
CancelOutcomes == {"ok", "error", "raise"}

RECURSIVE SortById(_)
\* A set of orders as the list the exchange returns, by ascending orderId.
SortById(orders) ==
    IF orders = {} THEN << >>
    ELSE LET first == CHOOSE o \in orders : \A q \in orders : o.orderId <= q.orderId
         IN <<first>> \o SortById(orders \ {first})

\* data['entrustedList'] of get_pending_orders(symbol)
EntrustedList(symbol) == SortById({o \in ex_pending : o.symbol = symbol})

SeqIds(orders) == {orders[i].orderId : i \in 1 .. Len(orders)}

\* del self.pending_orders[order_id]
Untrack(tracked, id) == SelectSeq(tracked, LAMBDA o : o.orderId # id)

\* The tracking entry built from an exchange order: cTime is in ms.
TrackingEntry(api_order) ==
    [orderId |-> api_order.orderId,
     symbol |-> api_order.symbol,
     side |-> api_order.side,
     size |-> api_order.size,
     timestamp |-> api_order.cTime \div 1000,
     is_close |-> (api_order.tradeSide = "close")]

\* The place_order call that converts a close order to market.
MarketClose(info) ==
    [symbol |-> info.symbol, side |-> info.side, trade_side |-> "close",
     size |-> info.size, order_type |-> "market"]

\* order_info['is_close'] and current_time - order_time > 20
CloseTimedOut(info, t) == info.is_close /\ t - info.timestamp > CloseTimeout

\* not order_info['is_close'] and current_time - order_time > 30
EntryTimedOut(info, t) == ~info.is_close /\ t - info.timestamp > EntryTimeout

\* A test that takes every cancel response for a success.
CancelAcknowledged_Any(outcome) == TRUE

\* if cancel_response.get('code') == '00000'
CancelAcknowledged(outcome) == outcome = "ok"

\* The exchange after cancel_order(id): the order leaves the pending list
\* when the exchange cancelled it.
Cancelled(ex, id, outcome) == IF outcome = "ok" THEN {o \in ex : o.orderId # id} ELSE ex

\* The ids whose cancellation the exchange has acknowledged.
Acknowledged(ids, id, outcome) == IF outcome = "ok" THEN ids \cup {id} ELSE ids

\* update_position_status(symbol, is_closed=True)
update_position_status(pos, symbol) == pos \ {symbol}

RECURSIVE ProcessTracked(_, _, _, _, _)
\* for order_id, order_info in list(self.pending_orders.items()): the loop
\* over the entries tracked when the pass started. st carries the tracking
\* map, the positions map, the exchange's orders and the calls made
\* (converted: the ids a market close was placed for); an exception of
\* cancel_order ends the loop.
ProcessTracked(items, st, fetched, t, cresp) ==
    IF items = << >> THEN st
    ELSE
      LET info == Head(items)
          id == info.orderId
          rest == Tail(items)
      IN
      IF id \notin fetched
      THEN ProcessTracked(rest, [st EXCEPT !.tracked = Untrack(@, id)],
                          fetched, t, cresp)
      ELSE IF CloseTimedOut(info, t)
      THEN CASE cresp[id] = "raise" ->
                  [st EXCEPT !.cancels = Append(@, id), !.raised = TRUE]
             [] CancelAcknowledged(cresp[id]) ->
                  ProcessTracked(rest,
                      [st EXCEPT !.cancels = Append(@, id),
                                 !.ex = Cancelled(@, id, cresp[id]),
                                 !.acknowledged = Acknowledged(@, id, cresp[id]),
                                 !.markets = Append(@, MarketClose(info)),
                                 !.converted = Append(@, id),
                                 !.tracked = Untrack(@, id)],
                      fetched, t, cresp)
             [] OTHER ->
                  ProcessTracked(rest,
                      [st EXCEPT !.cancels = Append(@, id),
                                 !.tracked = Untrack(@, id)],
                      fetched, t, cresp)
      ELSE IF EntryTimedOut(info, t)
      THEN CASE cresp[id] = "raise" ->
                  [st EXCEPT !.cancels = Append(@, id), !.raised = TRUE]
             [] CancelAcknowledged(cresp[id]) ->
                  ProcessTracked(rest,
                      [st EXCEPT !.cancels = Append(@, id),
                                 !.ex = Cancelled(@, id, cresp[id]),
                                 !.acknowledged = Acknowledged(@, id, cresp[id]),
                                 !.positions = update_position_status(@, info.symbol),
                                 !.tracked = Untrack(@, id)],
                      fetched, t, cresp)
             [] OTHER ->
                  ProcessTracked(rest,
                      [st EXCEPT !.cancels = Append(@, id),
                                 !.tracked = Untrack(@, id)],
                      fetched, t, cresp)
      ELSE ProcessTracked(rest, st, fetched, t, cresp)

RECURSIVE Adopt(_, _)
\* for order_id, api_order in current_pending.items(): an order that is not
\* tracked is added to self.pending_orders.
Adopt(tracked, current_pending) ==
    IF current_pending = << >> THEN tracked
    ELSE LET api_order == Head(current_pending)
         IN Adopt(IF api_order.orderId \in SeqIds(tracked)
                  THEN tracked
                  ELSE Append(tracked, TrackingEntry(api_order)),
                  Tail(current_pending))

RcInit ==
    /\ pending_orders = << >>
    /\ ex_pending = {}
    /\ ex_created = 0
    /\ now = 0
    /\ rc_log = [op |-> "none"]
    /\ market_closes = << >>
    /\ CoQuiet
    /\ positions \in {{}, {Symbol}}

\* One pass of check_pending_orders whose get_pending_orders("BTCUSDT")
\* failed: it logs and sleeps.
PassFetchFailed ==
    /\ rc_log' = [op |-> "pass_failed"]
    /\ UNCHANGED <<pending_orders, ex_pending, ex_created, now, positions>>
    /\ UNCHANGED market_closes
    /\ UNCHANGED <<mdVars, opLocals, exVars, tsVars, evVars, coVars>>

\* One pass of check_pending_orders that fetched the exchange's list: the
\* loop over the tracked orders, then (unless an exception ended the try
\* block) the adoption of untracked orders.
PassFetched ==
    /\ \E cresp \in [SeqIds(EntrustedList(Symbol)) -> CancelOutcomes] :
        LET current_pending == EntrustedList(Symbol)
            fetched == SeqIds(current_pending)
            r == ProcessTracked(pending_orders,
                    [tracked |-> pending_orders, positions |-> positions,
                     ex |-> ex_pending, cancels |-> << >>,
                     acknowledged |-> {}, markets |-> << >>,
                     converted |-> << >>, raised |-> FALSE],
                    fetched, now, cresp)
        IN /\ pending_orders' = IF r.raised THEN r.tracked
                                ELSE Adopt(r.tracked, current_pending)
           /\ positions' = r.positions
           /\ ex_pending' = r.ex
           /\ market_closes' = market_closes \o r.converted
           /\ rc_log' = [op |-> "pass", at |-> now, before |-> pending_orders,
                         fetched |-> fetched, cancels |-> r.cancels,
                         acknowledged |-> r.acknowledged,
                         markets |-> r.markets, converted |-> r.converted,
                         raised |-> r.raised]
    /\ UNCHANGED <<ex_created, now>>
    /\ UNCHANGED <<mdVars, opLocals, exVars, tsVars, evVars, coVars>>

RECURSIVE CancelEach(_, _, _)
\* BitgetAPI.cancel_all_pending_orders: for order in orders: cancel_order and
\* append its response; an exception returns [] from the except clause.
CancelEach(orders, st, cresp) ==
    IF orders = << >> THEN st
    ELSE LET id == Head(orders).orderId
         IN CASE cresp[id] = "raise" ->
                    [st EXCEPT !.results = << >>, !.raised = TRUE]
              [] cresp[id] = "ok" ->
                    CancelEach(Tail(orders),
                        [st EXCEPT !.results = Append(@, "00000"),
                                   !.ex = {o \in @ : o.orderId # id},
                                   !.cancelled = @ \cup {id}],
                        cresp)
              [] OTHER ->
                    CancelEach(Tail(orders),
                        [st EXCEPT !.results = Append(@, "error")], cresp)

\* success = all(result.get('code') == '00000' for result in cancel_results)
AllSucceeded(results) == \A i \in 1 .. Len(results) : results[i] = "00000"

\* The purge of the entries of the symbol from self.pending_orders.
PurgeSymbol(tracked, symbol) == SelectSeq(tracked, LAMBDA o : o.symbol # symbol)

\* cancel_all_symbol_orders(symbol) when get_pending_orders failed inside
\* cancel_all_pending_orders, which then returns [].
CancelAllFetchFailed ==
    /\ \E symbol \in Symbols :
        LET success == AllSucceeded(<< >>)
        IN /\ pending_orders' = IF success THEN PurgeSymbol(pending_orders, symbol)
                                ELSE pending_orders
           /\ rc_log' = [op |-> "cancel_all", symbol |-> symbol, fetched |-> FALSE,
                         orders |-> {}, cancelled |-> {}, raised |-> FALSE,
                         purged |-> success, returned |-> success]
    /\ UNCHANGED <<ex_pending, ex_created, now, positions>>
    /\ UNCHANGED market_closes
    /\ UNCHANGED <<mdVars, opLocals, exVars, tsVars, evVars, coVars>>

\* cancel_all_symbol_orders(symbol) when the pending orders were fetched.
CancelAllFetched ==
    /\ \E symbol \in Symbols :
       \E cresp \in [SeqIds(EntrustedList(symbol)) -> CancelOutcomes] :
        LET orders == EntrustedList(symbol)
            r == CancelEach(orders,
                    [ex |-> ex_pending, results |-> << >>, cancelled |-> {},
                     raised |-> FALSE], cresp)
            success == AllSucceeded(r.results)
        IN /\ pending_orders' = IF success THEN PurgeSymbol(pending_orders, symbol)
                                ELSE pending_orders
           /\ ex_pending' = r.ex
           /\ rc_log' = [op |-> "cancel_all", symbol |-> symbol, fetched |-> TRUE,
                         orders |-> SeqIds(orders), cancelled |-> r.cancelled,
                         raised |-> r.raised,
                         purged |-> success, returned |-> success]
    /\ UNCHANGED <<ex_created, now, positions>>
    /\ UNCHANGED market_closes
    /\ UNCHANGED <<mdVars, opLocals, exVars, tsVars, evVars, coVars>>

\* await asyncio.sleep(self.order_check_interval)
Tick ==
    /\ now < MaxNow
    /\ now' = now + OrderCheckInterval
    /\ UNCHANGED <<pending_orders, ex_pending, ex_created, rc_log, positions>>
    /\ UNCHANGED market_closes
    /\ UNCHANGED <<mdVars, opLocals, exVars, tsVars, evVars, coVars>>

\* The exchange accepts a new limit order (an entry or a limit close).
ExchangeAccept ==
    /\ ex_created < MaxOrders
    /\ now <= MaxAcceptTicks * OrderCheckInterval
    /\ ex_created' = ex_created + 1
    /\ \E kind \in OrderKinds :
        ex_pending' = ex_pending \cup
            {[orderId |-> ex_created + 1, symbol |-> kind.symbol,
              side |-> kind.side, size |-> Size, cTime |-> now * 1000,
              tradeSide |-> kind.tradeSide]}
    /\ UNCHANGED <<pending_orders, now, rc_log, positions>>
    /\ UNCHANGED market_closes
    /\ UNCHANGED <<mdVars, opLocals, exVars, tsVars, evVars, coVars>>

\* A pending order leaves the exchange's list: it filled, or was cancelled
\* elsewhere.
ExchangeRemove ==
    /\ \E o \in ex_pending : ex_pending' = ex_pending \ {o}
    /\ UNCHANGED <<pending_orders, ex_created, now, rc_log, positions>>
    /\ UNCHANGED market_closes
    /\ UNCHANGED <<mdVars, opLocals, exVars, tsVars, evVars, coVars>>

RcNext ==
    \/ PassFetchFailed
    \/ PassFetched
    \/ CancelAllFetchFailed
    \/ CancelAllFetched
    \/ Tick
    \/ ExchangeAccept
    \/ ExchangeRemove

InitRecon == EvQuiet /\ MdQuiet /\ OpQuietLocals /\ StQuiet /\ FnQuiet /\ RcInit

SpecRecon == InitRecon /\ [][RcNext]_vars

(***************************************************************************)
(* Pending-order tracking: properties                                      *)
(***************************************************************************)

\* The entries tracked when the last pass started.
TrackedBefore == {rc_log.before[i] : i \in 1 .. Len(rc_log.before)}
SeqSet(q) == {q[i] : i \in 1 .. Len(q)}

\* C8: in a pass, every tracked entry order that is still in the exchange's
\* list and older than 30 s has cancel_order called for it, and is not in
\* pending_orders when the pass ends.
C8_TimedOutEntryCancelledAndDropped ==
    rc_log.op = "pass" =>
        \A info \in TrackedBefore :
            (info.orderId \in rc_log.fetched /\ EntryTimedOut(info, rc_log.at))
                => /\ info.orderId \in SeqSet(rc_log.cancels)
                   /\ info.orderId \notin SeqIds(pending_orders)

\* C9: in a pass, every tracked close order that is still pending at the
\* exchange and older than 20 s is cancelled, a market close with its
\* symbol, side and size is submitted, and it is no longer tracked.
C9_TimedOutCloseConverted ==
    rc_log.op = "pass" =>
        \A info \in TrackedBefore :
            (info.orderId \in rc_log.fetched /\ CloseTimedOut(info, rc_log.at))
                => /\ info.orderId \in SeqSet(rc_log.cancels)
                   /\ MarketClose(info) \in SeqSet(rc_log.markets)
                   /\ info.orderId \notin SeqIds(pending_orders)

\* C10: cancel_all_symbol_orders returns True only if the pending orders
\* were fetched and each of them was cancelled, and purges the local
\* entries of the symbol only then.
C10_TrueOnlyIfAllCancelled ==
    rc_log.op = "cancel_all" =>
        LET all_cancelled == rc_log.fetched /\ rc_log.cancelled = rc_log.orders
        IN /\ (rc_log.returned => all_cancelled)
           /\ (rc_log.purged => all_cancelled)

\* C25: after a pass that fetched the exchange's pending list, no order
\* that was tracked when the pass started and is absent from the fetched
\* list is still in pending_orders, and the pass made no cancel_order call
\* and placed no market close for such an order.
C25_AbsentOrdersDropped ==
    rc_log.op = "pass" =>
        \A info \in TrackedBefore :
            info.orderId \notin rc_log.fetched
                => /\ info.orderId \notin SeqIds(pending_orders)
                   /\ info.orderId \notin SeqSet(rc_log.cancels)
                   /\ info.orderId \notin SeqSet(rc_log.converted)

\* C35: over all passes, no order id has more than one market close placed
\* for it; every market close of a pass is for a close order that was
\* tracked and timed out, and is placed only after the exchange
\* acknowledged the cancellation of that order.
C35_OneMarketClosePerOrder ==
    /\ \A i, j \in 1 .. Len(market_closes) :
            market_closes[i] = market_closes[j] => i = j
    /\ rc_log.op = "pass" =>
            \A id \in SeqSet(rc_log.converted) :
                /\ id \in rc_log.acknowledged
                /\ id \in SeqSet(market_closes)
                /\ \E info \in TrackedBefore :
                        info.orderId = id /\ CloseTimedOut(info, rc_log.at)

\* A pass met two timed-out close orders: the cancel of one was
\* acknowledged and its market close placed, the cancel of the other
\* failed and no market close was placed for it.
C35_Witness ==
    /\ rc_log.op = "pass"
    /\ Len(market_closes) = 1
    /\ SeqSet(rc_log.converted) = SeqSet(market_closes)
    /\ \E id \in SeqSet(rc_log.cancels) :
            /\ id \notin rc_log.acknowledged
            /\ id \notin SeqSet(market_closes)
            /\ \E info \in TrackedBefore :
                    info.orderId = id /\ CloseTimedOut(info, rc_log.at)

(***************************************************************************)
(* check_pending_orders and cancel_all_symbol_orders as coroutines of one  *)
(* event loop, one step per statement group. A coroutine that is resumed   *)
(* keeps the loop until it reaches a suspension point; only then may the   *)
(* other coroutine take a step.                                            *)
(***************************************************************************)

Reconciler == "check_pending_orders"
Strategy == "strategy"

\* The coroutine may take a step: the loop is free or it already holds it.
CanRun(coro) == running \in {"none", coro}

\* A variant in which cancel_order is awaited.
Suspends_ApiAwaited(site) == site \in {"sleep", "cancel_order"}

\* The call sites of the two coroutines that are suspension points: the
\* asyncio.sleep calls. The BitgetAPI methods are plain functions that block
\* in requests.get / requests.post.
Suspends(site) == site = "sleep"

\* Who holds the loop after a step that ends at the call site.
After(coro, site) == IF Suspends(site) THEN "none" ELSE coro

\* A step of one coroutine while the operation of the other is under way.
Tears(operation, under_way) == IF under_way THEN torn \cup {operation} ELSE torn

\* response = self.api.get_pending_orders("BTCUSDT") failed: the pass logs
\* and sleeps.
PassStartFailed ==
    /\ CanRun(Reconciler)
    /\ pass_pc = "sleep"
    /\ rc_log' = [op |-> "pass_failed"]
    /\ running' = After(Reconciler, "sleep")
    /\ torn' = Tears("cancel_all_symbol_orders", ca_pc # "idle")
    /\ UNCHANGED <<pending_orders, ex_pending, ex_created, now, positions>>
    /\ UNCHANGED <<pass_pc, pass_items, pass_fetched, current_time,
                   ca_pc, ca_orders, cancel_results>>
    /\ UNCHANGED market_closes
    /\ UNCHANGED <<mdVars, opLocals, exVars, tsVars, evVars>>

\* The pass fetched the exchange's list: pass_fetched, current_time and
\* the snapshot list(self.pending_orders.items()).
PassStart ==
    /\ CanRun(Reconciler)
    /\ pass_pc = "sleep"
    /\ pass_fetched' = EntrustedList(Symbol)
    /\ current_time' = now
    /\ pass_items' = pending_orders
    /\ pass_pc' = "loop"
    /\ rc_log' = [op |-> "pass", at |-> now, before |-> pending_orders,
                  fetched |-> SeqIds(EntrustedList(Symbol)),
                  cancels |-> << >>, acknowledged |-> {},
                  markets |-> << >>, converted |-> << >>, raised |-> FALSE]
    /\ running' = After(Reconciler, "get_pending_orders")
    /\ torn' = Tears("cancel_all_symbol_orders", ca_pc # "idle")
    /\ UNCHANGED <<pending_orders, ex_pending, ex_created, now, positions>>
    /\ UNCHANGED <<ca_pc, ca_orders, cancel_results>>
    /\ UNCHANGED market_closes
    /\ UNCHANGED <<mdVars, opLocals, exVars, tsVars, evVars>>

\* One iteration of the loop over the snapshot. An exception of
\* cancel_order leaves the try block for the sleep.
PassVisit ==
    /\ CanRun(Reconciler)
    /\ pass_pc = "loop"
    /\ pass_items # << >>
    /\ \E outcome \in CancelOutcomes :
        LET info == Head(pass_items)
            fetched == SeqIds(pass_fetched)
            cresp == [id \in fetched |-> outcome]
            r == ProcessTracked(<<info>>,
                    [tracked |-> pending_orders, positions |-> positions,
                     ex |-> ex_pending, cancels |-> rc_log.cancels,
                     acknowledged |-> rc_log.acknowledged,
                     markets |-> rc_log.markets,
                     converted |-> rc_log.converted, raised |-> FALSE],
                    fetched, current_time, cresp)
            called == Len(r.cancels) > Len(rc_log.cancels)
        IN /\ outcome = "ok" => info.orderId \in SeqIds(SortById(ex_pending))
           /\ pending_orders' = r.tracked
           /\ positions' = r.positions
           /\ ex_pending' = r.ex
           /\ market_closes' =
                market_closes \o SubSeq(r.converted, Len(rc_log.converted) + 1,
                                        Len(r.converted))
           /\ rc_log' = [rc_log EXCEPT !.cancels = r.cancels,
                                       !.acknowledged = r.acknowledged,
                                       !.markets = r.markets,
                                       !.converted = r.converted,
                                       !.raised = r.raised]
           /\ pass_items' = IF r.raised THEN << >> ELSE Tail(pass_items)
           /\ pass_pc' = IF r.raised THEN "sleep" ELSE "loop"
           /\ running' = IF r.raised THEN After(Reconciler, "sleep")
                         ELSE IF called THEN After(Reconciler, "cancel_order")
                         ELSE Reconciler
    /\ torn' = Tears("cancel_all_symbol_orders", ca_pc # "idle")
    /\ UNCHANGED <<ex_created, now, pass_fetched, current_time>>
    /\ UNCHANGED <<ca_pc, ca_orders, cancel_results>>
    /\ UNCHANGED <<mdVars, opLocals, exVars, tsVars, evVars>>

\* The adoption loop, then await asyncio.sleep(self.order_check_interval).
PassAdopt ==
    /\ CanRun(Reconciler)
    /\ pass_pc = "loop"
    /\ pass_items = << >>
    /\ pending_orders' = Adopt(pending_orders, pass_fetched)
    /\ pass_pc' = "sleep"
    /\ running' = After(Reconciler, "sleep")
    /\ torn' = Tears("cancel_all_symbol_orders", ca_pc # "idle")
    /\ UNCHANGED <<ex_pending, ex_created, now, rc_log, positions>>
    /\ UNCHANGED <<pass_items, pass_fetched, current_time,
                   ca_pc, ca_orders, cancel_results>>
    /\ UNCHANGED market_closes
    /\ UNCHANGED <<mdVars, opLocals, exVars, tsVars, evVars>>

\* The strategy awaits cancel_all_symbol_orders("BTCUSDT"):
\* cancel_all_pending_orders fetches the orders to cancel; when the fetch
\* fails it returns [].
CancelAllStart ==
    /\ CanRun(Strategy)
    /\ ca_pc = "idle"
    /\ \E fetched \in BOOLEAN :
        ca_orders' = IF fetched THEN EntrustedList(Symbol) ELSE << >>
    /\ cancel_results' = << >>
    /\ ca_pc' = "cancelling"
    /\ running' = After(Strategy, "get_pending_orders")
    /\ torn' = Tears("check_pending_orders", pass_pc # "sleep")
    /\ UNCHANGED <<pending_orders, ex_pending, ex_created, now, rc_log, positions>>
    /\ UNCHANGED <<pass_pc, pass_items, pass_fetched, current_time>>
    /\ UNCHANGED market_closes
    /\ UNCHANGED <<mdVars, opLocals, exVars, tsVars, evVars>>

\* One iteration of for order in orders: cancel_order.
CancelAllVisit ==
    /\ CanRun(Strategy)
    /\ ca_pc = "cancelling"
    /\ ca_orders # << >>
    /\ \E outcome \in CancelOutcomes :
        LET id == Head(ca_orders).orderId
            r == CancelEach(<<Head(ca_orders)>>,
                    [ex |-> ex_pending, results |-> cancel_results,
                     cancelled |-> {}, raised |-> FALSE],
                    [o \in {id} |-> outcome])
        IN /\ outcome = "ok" => id \in SeqIds(SortById(ex_pending))
           /\ ex_pending' = r.ex
           /\ cancel_results' = r.results
           /\ ca_orders' = IF r.raised THEN << >> ELSE Tail(ca_orders)
    /\ running' = After(Strategy, "cancel_order")
    /\ torn' = Tears("check_pending_orders", pass_pc # "sleep")
    /\ UNCHANGED <<pending_orders, ex_created, now, rc_log, positions, ca_pc>>
    /\ UNCHANGED <<pass_pc, pass_items, pass_fetched, current_time>>
    /\ UNCHANGED market_closes
    /\ UNCHANGED <<mdVars, opLocals, exVars, tsVars, evVars>>

\* success, the purge of self.pending_orders, and the return to the
\* strategy, which sleeps before its next tick.
CancelAllFinish ==
    /\ CanRun(Strategy)
    /\ ca_pc = "cancelling"
    /\ ca_orders = << >>
    /\ pending_orders' = IF AllSucceeded(cancel_results)
                         THEN PurgeSymbol(pending_orders, Symbol)
                         ELSE pending_orders
    /\ ca_pc' = "idle"
    /\ running' = After(Strategy, "sleep")
    /\ torn' = Tears("check_pending_orders", pass_pc # "sleep")
    /\ UNCHANGED <<ex_pending, ex_created, now, rc_log, positions>>
    /\ UNCHANGED <<pass_pc, pass_items, pass_fetched, current_time,
                   ca_orders, cancel_results>>
    /\ UNCHANGED market_closes
    /\ UNCHANGED <<mdVars, opLocals, exVars, tsVars, evVars>>

\* Orders of the traded symbol the exchange accepts per behaviour.
MaxTracked == 2

\* The exchange accepts a limit order of the traded symbol before the
\* first pass.
AcceptOrder ==
    /\ ex_created < MaxTracked
    /\ now = 0
    /\ ex_created' = ex_created + 1
    /\ \E kind \in {k \in OrderKinds : k.symbol = Symbol} :
        ex_pending' = ex_pending \cup
            {[orderId |-> ex_created + 1, symbol |-> kind.symbol,
              side |-> kind.side, size |-> Size, cTime |-> now * 1000,
              tradeSide |-> kind.tradeSide]}
    /\ UNCHANGED <<pending_orders, now, rc_log, positions>>
    /\ UNCHANGED market_closes
    /\ UNCHANGED <<mdVars, opLocals, exVars, tsVars, evVars, coVars>>

CoNext ==
    \/ PassStartFailed
    \/ PassStart
    \/ PassVisit
    \/ PassAdopt
    \/ CancelAllStart
    \/ CancelAllVisit
    \/ CancelAllFinish
    \/ Tick
    \/ AcceptOrder
    \/ ExchangeRemove

InitCoroutines == InitRecon

SpecCoroutines == InitCoroutines /\ [][CoNext]_vars

\* C31: no step of the strategy's cancel_all_symbol_orders is taken while
\* a reconciliation pass is between its fetch and its last write of
\* pending_orders, and no step of a pass is taken while
\* cancel_all_symbol_orders is under way; while one of them is under way it
\* holds the event loop.
C31_MapOperationsAtomic ==
    /\ torn = {}
    /\ pass_pc # "sleep" => (running = Reconciler /\ ca_pc = "idle")
    /\ ca_pc # "idle" => (running = Strategy /\ pass_pc = "sleep")

\* A pass has called cancel_order and still has entries to visit; a
\* cancel_all_symbol_orders call purged the map before.
C31_Witness ==
    /\ pass_pc = "loop"
    /\ rc_log.cancels # << >>
    /\ pass_items # << >>
    /\ Len(pending_orders) < Len(rc_log.before)
    /\ running = Reconciler

(***************************************************************************)
(* TradingStrategy: entry predicates, close predicate, position sizing     *)
(*                                                                         *)
(* Prices, volumes and oscillator values are whole numbers; long/short     *)
(* ratios are in tenths of a percent (0.2 % is 2); position sizes are in   *)
(* thousandths of a contract (0.570 is 570). PnL% thresholds are compared  *)
(* by cross-multiplication, entry prices being positive.                   *)
(***************************************************************************)

\* TradingConfig defaults
leverage == 30
volume_threshold == 20
stoch_rsi_high == 90
stoch_rsi_low == 10
position_size_pct == 95
\* self.ratio_drop_threshold = 0.2
ratio_drop_threshold == 2
\* recovered = current_ratio > (self.ratio_drop_value + 0.1)
RecoveryMargin == 1

IndicatorKeys == {"last_volume", "stoch_k", "last_close", "ema200", "price_change"}

\* dict.get(key, default)
Get(d, key, default) == IF key \in DOMAIN d THEN d[key] ELSE default

\* The dict without one of its keys.
Without(d, key) == [k \in DOMAIN d \ {key} |-> d[k]]

\* Indicator snapshots calculate_technical_indicators hands to the
\* predicates.
FullSnapshots ==
    [last_volume : {20, 25}, stoch_k : {5, 10, 95},
     last_close : {49900, 50100}, ema200 : {50000},
     price_change : {-5, 0, 5}]

\* The snapshot of the documented example.
ExampleSnapshot ==
    [last_volume |-> 25, stoch_k |-> 5, last_close |-> 50100,
     ema200 |-> 50000, price_change |-> 5]

\* Snapshots of a provider that also reports the long/short ratios the
\* recovery check reads with indicators.get('long_ratio', 0).
RatioSnapshots ==
    {[k \in DOMAIN ExampleSnapshot \cup {"long_ratio", "short_ratio"} |->
          IF k \in DOMAIN ExampleSnapshot THEN ExampleSnapshot[k] ELSE r] :
        r \in {500, 502}}

\* Snapshots with a key missing.
PartialSnapshots == {Without(ExampleSnapshot, k) : k \in IndicatorKeys}

Snapshots == FullSnapshots \cup RatioSnapshots \cup PartialSnapshots

\* The fields of TradingStrategy the entry predicates read and write.
StrategyStates ==
    {[in_position |-> ip, ratio_drop_value |-> rd[1], ratio_drop_direction |-> rd[2]] :
        ip \in BOOLEAN,
        rd \in {<<0, "none">>, <<500, "long">>, <<500, "short">>}}

\* check_ratio_recovery: True without a recorded ratio drop; otherwise the
\* ratio of the locked direction must exceed the recorded value by more
\* than 0.1, and a recovery clears the record.
check_ratio_recovery(indicators, st) ==
    IF st.ratio_drop_value = 0 \/ st.ratio_drop_direction = "none"
    THEN [recovered |-> TRUE, st |-> st]
    ELSE LET key == IF st.ratio_drop_direction = "long"
                    THEN "long_ratio" ELSE "short_ratio"
             current_ratio == Get(indicators, key, 0)
             recovered == current_ratio > st.ratio_drop_value + RecoveryMargin
         IN  [recovered |-> recovered,
              st |-> IF recovered
                     THEN [st EXCEPT !.ratio_drop_value = 0,
                                     !.ratio_drop_direction = "none"]
                     ELSE st]

\* A rising-price test that also accepts an unchanged price.
PriceRising_OrFlat(indicators) == indicators.price_change >= 0

\* price_rising = float(indicators['price_change']) > 0
PriceRising(indicators) == indicators.price_change > 0

\* volume_surge and stoch_rsi_condition and price_above_ema and price_rising
LongConditions(indicators) ==
    /\ indicators.last_volume > volume_threshold
    /\ indicators.stoch_k < stoch_rsi_low
    /\ indicators.last_close > indicators.ema200
    /\ PriceRising(indicators)

\* A short test that looks at the volume surge only.
ShortConditions_VolumeOnly(indicators) == indicators.last_volume > volume_threshold

\* volume_surge and stoch_rsi_condition and price_below_ema and price_falling
ShortConditions(indicators) ==
    /\ indicators.last_volume > volume_threshold
    /\ indicators.stoch_k > stoch_rsi_high
    /\ indicators.last_close < indicators.ema200
    /\ indicators.price_change < 0

\* The body shared by should_open_long and should_open_short: the ratio
\* lock of the direction first (with the side effect of the recovery
\* check), then the conditions; a missing key (KeyError) gives False.
EntryPredicate(direction, indicators, st) ==
    LET locked == st.ratio_drop_direction = direction
        rec == check_ratio_recovery(indicators, st)
        st1 == IF locked THEN rec.st ELSE st
    IN  IF locked /\ ~rec.recovered
        THEN [result |-> FALSE, st |-> st1]
        ELSE IF ~(IndicatorKeys \subseteq DOMAIN indicators)
        THEN [result |-> FALSE, st |-> st1]
        ELSE [result |-> /\ IF direction = "long"
                            THEN LongConditions(indicators)
                            ELSE ShortConditions(indicators)
                         /\ ~st.in_position,
              st |-> st1]

should_open_long(indicators, st) == EntryPredicate("long", indicators, st)

should_open_short(indicators, st) == EntryPredicate("short", indicators, st)

\* Positions should_close_position is given: the side, the entry price and
\* the break-even price the exchange reports (0 when openPriceAvg is absent).
ClosePositions ==
    [side : {"long", "short"}, entry_price : {0, 50000},
     break_even_price : {50000, 50010}]

\* Closing prices around the stop-loss and take-profit levels of a 50000
\* entry, for either side.
CloseLevels == {49775, 49776, 49850, 49851, 50000, 50149, 50150, 50224, 50225}

CloseSnapshots ==
    {[ExampleSnapshot EXCEPT !.last_close = c, !.price_change = d] :
        c \in CloseLevels, d \in {-5, 0, 5}}
    \cup {Without(ExampleSnapshot, "last_close"),
          Without(ExampleSnapshot, "price_change")}

\* What calculate_position_ratio_indicators() returns: a dict with the
\* current long and short ratios, or one without them.
PositionRatios ==
    {<< >>} \cup {[long_ratio |-> r, short_ratio |-> 1000 - r] : r \in {497, 498, 500}}

EntryRatios == {0, 500}

NoClose == [close |-> FALSE, reason |-> ""]

\* (current_price - break_even_price) for a long, the opposite for a short:
\* pnl_percentage is this over entry_price, times 100.
PnlNum(pos, current_price) ==
    IF pos.side = "long"
    THEN current_price - pos.break_even_price
    ELSE pos.break_even_price - current_price

\* A stop-loss test that misses the level itself.
StopLossHit_Strict(pos, current_price) ==
    PnlNum(pos, current_price) * 1000 < -3 * pos.entry_price

\* if pnl_percentage <= -0.3
StopLossHit(pos, current_price) ==
    PnlNum(pos, current_price) * 1000 <= -3 * pos.entry_price

\* A take-profit test that does not look at the candle.
TakeProfitHit_AnyCandle(pos, current_price, price_change) ==
    PnlNum(pos, current_price) * 10000 >= 45 * pos.entry_price

\* long: price_change < 0 and pnl_percentage >= 0.45
\* short: price_change > 0 and pnl_percentage >= 0.45
TakeProfitHit(pos, current_price, price_change) ==
    /\ IF pos.side = "long" THEN price_change < 0 ELSE price_change > 0
    /\ PnlNum(pos, current_price) * 10000 >= 45 * pos.entry_price

\* The ratio of the position's side has fallen more than
\* ratio_drop_threshold below the ratio recorded at entry.
RatioDropped(pos, position_ratios, entry_ratio) ==
    /\ entry_ratio > 0
    /\ Get(position_ratios,
           IF pos.side = "long" THEN "long_ratio" ELSE "short_ratio", 0)
         < entry_ratio - ratio_drop_threshold

\* should_close_position: the indicator reads (KeyError), the ratio-drop
\* test, the PnL% computation (ZeroDivisionError for a zero entry price),
\* the stop loss and the take profit; any exception gives (False, "").
should_close_position(pos, indicators, position_ratios, entry_ratio) ==
    IF ~({"last_close", "price_change"} \subseteq DOMAIN indicators)
    THEN NoClose
    ELSE IF RatioDropped(pos, position_ratios, entry_ratio)
    THEN [close |-> TRUE, reason |-> "ratio_drop"]
    ELSE IF pos.entry_price = 0
    THEN NoClose
    ELSE IF StopLossHit(pos, indicators.last_close)
    THEN [close |-> TRUE, reason |-> "stop_loss"]
    ELSE IF TakeProfitHit(pos, indicators.last_close, indicators.price_change)
    THEN [close |-> TRUE, reason |-> "take_profit"]
    ELSE NoClose

\* What the awaited get_account_balance() gives calculate_position_size:
\* an exception, an error response, or the available balance.
Balances == {0, 102, 1000}
AccountResponses ==
    {[kind |-> "raise"], [kind |-> "error"]}
    \cup {[kind |-> "ok", available |-> b] : b \in Balances}

SizePrices == {0, 50000, 57000}

\* The (available_balance, current_price) pairs of the inputs above for which
\* position_size * 1000, computed in IEEE-754 doubles as
\* ((balance * (95.0 / 100)) * 30 / price) * 1000, lies below the whole
\* number the exact quotient is: 102 and 57000 give 50.99999999999999
\* where the quotient is 51.
RoundsBelow == {<<102, 57000>>}

\* math.floor(position_size * 1000), in thousandths.
FloorSize(available_balance, current_price) ==
    LET exact == (available_balance * position_size_pct * leverage * 10)
                    \div current_price
    IN  IF <<available_balance, current_price>> \in RoundsBelow
        THEN exact - 1
        ELSE exact

\* calculate_position_size, in thousandths: 0.0 for an error response and
\* for any exception (the awaited call, a zero price).
calculate_position_size(account_info, current_price) ==
    IF account_info.kind # "ok" \/ current_price = 0
    THEN 0
    ELSE FloorSize(account_info.available, current_price)

FnOthers == <<mdVars, opVars, exVars, rcVars, stVars, evVars>>

CallShouldOpenLong ==
    /\ \E indicators \in Snapshots, st \in StrategyStates :
        fn_call' = [op |-> "should_open_long", indicators |-> indicators,
                    st |-> st, out |-> should_open_long(indicators, st)]
    /\ UNCHANGED FnOthers

CallShouldOpenShort ==
    /\ \E indicators \in Snapshots, st \in StrategyStates :
        fn_call' = [op |-> "should_open_short", indicators |-> indicators,
                    st |-> st, out |-> should_open_short(indicators, st)]
    /\ UNCHANGED FnOthers

CallShouldClosePosition ==
    /\ \E pos \in ClosePositions, indicators \in CloseSnapshots,
          position_ratios \in PositionRatios, entry_ratio \in EntryRatios :
        fn_call' = [op |-> "should_close_position", pos |-> pos,
                    indicators |-> indicators,
                    position_ratios |-> position_ratios,
                    entry_ratio |-> entry_ratio,
                    out |-> should_close_position(pos, indicators,
                                                  position_ratios, entry_ratio)]
    /\ UNCHANGED FnOthers

CallCalculatePositionSize ==
    /\ \E account_info \in AccountResponses, current_price \in SizePrices :
        fn_call' = [op |-> "calculate_position_size",
                    account_info |-> account_info,
                    current_price |-> current_price,
                    out |-> calculate_position_size(account_info, current_price)]
    /\ UNCHANGED FnOthers

\* Snapshots around every threshold of the two entry predicates: volume at
\* and above the threshold, stoch_k below, at and above both bounds, the
\* close below, at and above the EMA, the price falling, flat and rising.
BoundarySnapshots ==
    [last_volume : {20, 25}, stoch_k : {5, 10, 50, 90, 95},
     last_close : {49900, 50000, 50100}, ema200 : {50000},
     price_change : {-5, 0, 5}]

\* Both entry predicates on one snapshot and one strategy state, and the
\* short predicate on the state the long one leaves, as the tick calls it.
CallEntryPredicates ==
    /\ \E indicators \in BoundarySnapshots \cup RatioSnapshots \cup PartialSnapshots,
          st \in StrategyStates :
        LET long == should_open_long(indicators, st)
        IN  fn_call' = [op |-> "entry_predicates", indicators |-> indicators,
                        st |-> st, long |-> long.result,
                        short |-> should_open_short(indicators, st).result,
                        short_after_long |->
                            should_open_short(indicators, long.st).result]
    /\ UNCHANGED FnOthers

FnNext ==
    \/ CallShouldOpenLong
    \/ CallShouldOpenShort
    \/ CallEntryPredicates
    \/ CallShouldClosePosition
    \/ CallCalculatePositionSize

InitSignals == EvQuiet /\ MdQuiet /\ OpQuiet /\ RcQuiet /\ StQuiet /\ FnQuiet

SpecSignals == InitSignals /\ [][FnNext]_vars

(***************************************************************************)
(* TradingStrategy predicates and sizing: properties                       *)
(***************************************************************************)

\* The last call was should_close_position with a defined PnL%: both
\* indicator keys present and a positive entry price.
CallPnlDefined ==
    /\ fn_call.op = "should_close_position"
    /\ {"last_close", "price_change"} \subseteq DOMAIN fn_call.indicators
    /\ fn_call.pos.entry_price > 0

CallPnlNum == PnlNum(fn_call.pos, fn_call.indicators.last_close)

\* The candle of the last call opposes the side of its position.
CallCandleOpposes ==
    IF fn_call.pos.side = "long"
    THEN fn_call.indicators.price_change < 0
    ELSE fn_call.indicators.price_change > 0

CallRatioDropped ==
    RatioDropped(fn_call.pos, fn_call.position_ratios, fn_call.entry_ratio)

\* C17 as stated: whenever PnL% is at most -0.3, should_close_position
\* returns (True, 'stop_loss'), whatever the sign of price_change.
C17_StopLossAlways ==
    (CallPnlDefined /\ CallPnlNum * 1000 <= -3 * fn_call.pos.entry_price)
        => fn_call.out = [close |-> TRUE, reason |-> "stop_loss"]

\* C17 amended: whenever PnL% is at most -0.3, should_close_position asks
\* for a close whatever the sign of price_change: with reason 'ratio_drop'
\* when the ratio of the position's side has fallen more than
\* ratio_drop_threshold below a recorded entry ratio, and with reason
\* 'stop_loss' otherwise.
C17_StopLossUnlessRatioDrop ==
    (CallPnlDefined /\ CallPnlNum * 1000 <= -3 * fn_call.pos.entry_price)
        => fn_call.out = [close |-> TRUE,
                          reason |-> IF CallRatioDropped
                                     THEN "ratio_drop" ELSE "stop_loss"]

\* C17 witness: a long at exactly -0.3 % on a rising candle, without a
\* ratio drop, is closed for stop_loss.
C17_Witness ==
    /\ CallPnlDefined
    /\ fn_call.pos = [side |-> "long", entry_price |-> 50000,
                      break_even_price |-> 50000]
    /\ fn_call.indicators.last_close = 49850
    /\ fn_call.indicators.price_change > 0
    /\ ~CallRatioDropped
    /\ fn_call.out = [close |-> TRUE, reason |-> "stop_loss"]

\* C18 as stated: (True, 'take_profit') is returned only when PnL% >= 0.45
\* and the candle opposes the side; with PnL% above -0.3 and either of the
\* two missing, (False, '') is returned.
C18_TakeProfitOnly ==
    /\ (fn_call.op = "should_close_position" /\ fn_call.out.reason = "take_profit")
        => /\ CallPnlDefined
           /\ CallPnlNum * 10000 >= 45 * fn_call.pos.entry_price
           /\ CallCandleOpposes
    /\ (/\ CallPnlDefined
        /\ CallPnlNum * 1000 > -3 * fn_call.pos.entry_price
        /\ ~(CallPnlNum * 10000 >= 45 * fn_call.pos.entry_price /\ CallCandleOpposes))
        => fn_call.out = NoClose

\* C18 amended: (True, 'take_profit') is returned only when PnL% >= 0.45 and
\* the candle opposes the side; with PnL% above -0.3 and either of the two
\* missing, the result is (False, '') unless the ratio of the position's
\* side has fallen more than ratio_drop_threshold below a recorded entry
\* ratio, when it is (True, 'ratio_drop').
C18_TakeProfitOnlyUnlessRatioDrop ==
    /\ (fn_call.op = "should_close_position" /\ fn_call.out.reason = "take_profit")
        => /\ CallPnlDefined
           /\ CallPnlNum * 10000 >= 45 * fn_call.pos.entry_price
           /\ CallCandleOpposes
    /\ (/\ CallPnlDefined
        /\ CallPnlNum * 1000 > -3 * fn_call.pos.entry_price
        /\ ~(CallPnlNum * 10000 >= 45 * fn_call.pos.entry_price /\ CallCandleOpposes))
        => fn_call.out = IF CallRatioDropped
                         THEN [close |-> TRUE, reason |-> "ratio_drop"]
                         ELSE NoClose

\* C18 witness: a short at exactly +0.45 % on a falling candle (which does
\* not oppose a short), without a ratio drop, is not closed.
C18_Witness ==
    /\ CallPnlDefined
    /\ fn_call.pos = [side |-> "short", entry_price |-> 50000,
                      break_even_price |-> 50000]
    /\ fn_call.indicators.last_close = 49775
    /\ fn_call.indicators.price_change < 0
    /\ ~CallRatioDropped
    /\ fn_call.out = NoClose

\* The five conditions of the long entry on the last call's arguments.
CallLongConditions ==
    /\ IndicatorKeys \subseteq DOMAIN fn_call.indicators
    /\ fn_call.indicators.last_volume > volume_threshold
    /\ fn_call.indicators.stoch_k < stoch_rsi_low
    /\ fn_call.indicators.last_close > fn_call.indicators.ema200
    /\ fn_call.indicators.price_change > 0
    /\ ~fn_call.st.in_position

\* The long side is locked after a ratio-drop close: a drop is recorded for
\* 'long' and the long ratio is not above the recorded value plus 0.1.
CallLongLocked ==
    /\ fn_call.st.ratio_drop_direction = "long"
    /\ fn_call.st.ratio_drop_value # 0
    /\ Get(fn_call.indicators, "long_ratio", 0)
          <= fn_call.st.ratio_drop_value + RecoveryMargin

\* C19 as stated: should_open_long is true exactly when the five conditions
\* hold, and false when an indicator key is missing.
C19_LongExactlyFiveConditions ==
    fn_call.op = "should_open_long"
        => (fn_call.out.result <=> CallLongConditions)

\* C19 amended: should_open_long is true exactly when the five conditions
\* hold and the long side is not locked by a recorded ratio drop that has
\* not recovered; it is false when an indicator key is missing.
C19_LongExactlyUnlessLocked ==
    fn_call.op = "should_open_long"
        => (fn_call.out.result <=> (CallLongConditions /\ ~CallLongLocked))

\* C19 witness: the documented example (volume 25, stoch_k 5, close 50100,
\* ema200 50000, price_change +5), not in a position and not locked, is an
\* entry.
C19_Witness ==
    /\ fn_call.op = "should_open_long"
    /\ fn_call.indicators = ExampleSnapshot
    /\ ~fn_call.st.in_position
    /\ fn_call.st.ratio_drop_direction = "none"
    /\ fn_call.out.result = TRUE

\* C38: with the configured bounds (stoch_rsi_low <= stoch_rsi_high), on no
\* snapshot and in no strategy state do should_open_long and
\* should_open_short both return True, whether the short predicate is
\* called on the same state or after the long one.
C38_EntriesExclusive ==
    /\ stoch_rsi_low <= stoch_rsi_high
    /\ fn_call.op = "entry_predicates"
          => /\ ~(fn_call.long /\ fn_call.short)
             /\ ~(fn_call.long /\ fn_call.short_after_long)

\* C38 witness: the short entry holds on a snapshot (volume 25, stoch_k 95,
\* close below the EMA, price falling) in a state that is not locked, and
\* the long entry does not.
C38_Witness ==
    /\ fn_call.op = "entry_predicates"
    /\ fn_call.indicators =
          [last_volume |-> 25, stoch_k |-> 95, last_close |-> 49900,
           ema200 |-> 50000, price_change |-> -5]
    /\ ~fn_call.st.in_position
    /\ fn_call.short
    /\ fn_call.short_after_long
    /\ ~fn_call.long

\* C20: with a balance read and a positive price, the size (in thousandths)
\* is the floor of available_balance * (position_size_pct / 100) * leverage
\* / current_price * 1000: not above that quantity and less than one
\* thousandth below it.
C20_SizeIsFloor ==
    (/\ fn_call.op = "calculate_position_size"
     /\ fn_call.account_info.kind = "ok"
     /\ fn_call.current_price > 0)
        => LET quantity == fn_call.account_info.available * position_size_pct
                              * leverage * 10
               price == fn_call.current_price
           IN  /\ fn_call.out * price <= quantity
               /\ quantity - fn_call.out * price < price

(***************************************************************************)
(* TradingStrategy: the tick loop, entries and close_position              *)
(*                                                                         *)
(* The strategy awaits its collaborators; they are taken at their          *)
(* interface: get_position gives a Position or None, update_position_ratio *)
(* completes or raises, calculate_position_ratio_indicators gives a dict,  *)
(* execute_market_close and execute_limit_close give a success flag,       *)
(* open_position gives True or False as the executor model above allows.   *)
(***************************************************************************)

\* Seconds between two ticks: the 1 s sleep of run() and whatever the
\* scheduler adds. Two sleeps can add up to 119, 120 or 121 seconds.
SleepSteps == {59, 60, 61}

\* Seconds an entry (cancel, sizing, open_position with its fill wait) takes.
EntryDurations == {0, 30}

\* The clock is followed for this long after start-up.
MaxElapsed == 183

\* The position the exchange reports for the symbol.
ReportedPosition ==
    [side |-> ex_side, entry_price |-> 50000, break_even_price |-> 50000]

\* What the awaited get_position can give: None always (no position, or an
\* error), the position when the exchange holds one.
TickPositions == {None} \cup (IF ex_side # "none" THEN {ReportedPosition} ELSE {})

ShortSnapshot ==
    [last_volume |-> 25, stoch_k |-> 95, last_close |-> 49900,
     ema200 |-> 50000, price_change |-> -5]

\* What calculate_technical_indicators() gives a tick: nothing (too few
\* candles, or an error), a long signal, a short signal, no signal, a close
\* at the -0.3 % level of a long, a falling close at the +0.45 % level of a
\* long, a zero close.
TickSnapshots ==
    {<< >>, ExampleSnapshot, ShortSnapshot,
     [ExampleSnapshot EXCEPT !.stoch_k = 50],
     [ExampleSnapshot EXCEPT !.stoch_k = 50, !.last_close = 49850],
     [ExampleSnapshot EXCEPT !.stoch_k = 50, !.last_close = 50225,
                             !.price_change = -5],
     [ExampleSnapshot EXCEPT !.last_close = 0]}

\* What calculate_position_ratio_indicators() gives a tick.
TickRatios ==
    {<< >>, [long_ratio |-> 500, short_ratio |-> 500],
     [long_ratio |-> 497, short_ratio |-> 497]}

\* The balance responses an entry can meet.
TickAccounts == {[kind |-> "error"], [kind |-> "ok", available |-> 1000]}

\* The exchange's position after an open_position call for the given side:
\* a True result leaves the position open; a False result leaves nothing,
\* or (leaves) the position of a fill the call did not see or could not
\* roll back. A position that was already there stays.
OpenEffect(side, result, leaves) ==
    IF ex_side # "none" THEN ex_side
    ELSE IF result \/ leaves THEN side
    ELSE "none"

\* The fields of TradingStrategy.
StrategyState ==
    [in_position |-> in_position, last_trade_time |-> last_trade_time,
     entry_position_ratio |-> entry_position_ratio,
     ratio_drop_value |-> ratio_drop_value,
     ratio_drop_direction |-> ratio_drop_direction]

\* What a tick has done besides changing the strategy's fields.
NoTrace ==
    [cancel_alls |-> 0, indicators |-> FALSE, evaluated |-> << >>,
     entry |-> "none", opens |-> 0, opened |-> "none", reason |-> "",
     closes |-> << >>,
     closed |-> "none"]

RatioKey(side) == IF side = "long" THEN "long_ratio" ELSE "short_ratio"

\* A close that sends every reason to the limit close first.
MarketOnly_Never(reason) == FALSE

\* if reason in ["stop_loss", "ratio_drop"]
MarketOnly(reason) == reason \in {"stop_loss", "ratio_drop"}

\* close_position(position, reason): the ratio bookkeeping of a ratio_drop
\* close (a missing ratio key ends the call in its except clause),
\* cancel_all_symbol_orders, then a market close for stop_loss and
\* ratio_drop, a limit close and on its failure a market close for any
\* other reason. limit_fills says whether a successful limit close has
\* already emptied the position.
close_position(st, pos, reason, position_ratios, limit_ok, limit_fills, market_ok, trace) ==
    IF reason = "ratio_drop" /\ RatioKey(pos.side) \notin DOMAIN position_ratios
    THEN [st |-> st, ex_side |-> ex_side,
          trace |-> [trace EXCEPT !.closed = FALSE]]
    ELSE
    LET st1 == IF reason = "ratio_drop"
               THEN [st EXCEPT
                        !.ratio_drop_value = position_ratios[RatioKey(pos.side)],
                        !.ratio_drop_direction = pos.side]
               ELSE st
        tr1 == [trace EXCEPT !.cancel_alls = @ + 1]
        Done(attempts, gone) ==
            [st |-> [st1 EXCEPT !.in_position = FALSE],
             ex_side |-> IF gone THEN "none" ELSE ex_side,
             trace |-> [tr1 EXCEPT !.closes = attempts, !.closed = TRUE]]
        Failed(attempts) ==
            [st |-> st1, ex_side |-> ex_side,
             trace |-> [tr1 EXCEPT !.closes = attempts, !.closed = FALSE]]
    IN  IF MarketOnly(reason)
        THEN IF market_ok
             THEN Done(<<[kind |-> "market", ok |-> TRUE]>>, TRUE)
             ELSE Failed(<<[kind |-> "market", ok |-> FALSE]>>)
        ELSE IF limit_ok
             THEN Done(<<[kind |-> "limit", ok |-> TRUE]>>, limit_fills)
             ELSE IF market_ok
                  THEN Done(<<[kind |-> "limit", ok |-> FALSE],
                              [kind |-> "market", ok |-> TRUE]>>, TRUE)
                  ELSE Failed(<<[kind |-> "limit", ok |-> FALSE],
                                [kind |-> "market", ok |-> FALSE]>>)

\* execute_long_trade / execute_short_trade: cancel_all_symbol_orders, the
\* entry ratio, the size (0 ends the call), open_position; success sets
\* in_position and stamps last_trade_time when the call is over, failure
\* clears the entry ratio.
execute_trade(side, st, position_ratios, account_info, current_price, result, leaves, duration, trace) ==
    LET tr1 == [trace EXCEPT !.cancel_alls = @ + 1, !.entry = side]
        st1 == [st EXCEPT !.entry_position_ratio =
                              Get(position_ratios, RatioKey(side), 0)]
        size == calculate_position_size(account_info, current_price)
    IN  IF size = 0
        THEN [st |-> st1, ex_side |-> ex_side, clock |-> clock,
              last_event |-> last_event,
              trace |-> [tr1 EXCEPT !.opened = "not_sized"]]
        ELSE IF result
        THEN [st |-> [st1 EXCEPT !.in_position = TRUE,
                                 !.last_trade_time = clock + duration],
              ex_side |-> OpenEffect(side, TRUE, leaves),
              clock |-> clock + duration,
              last_event |-> clock + duration,
              trace |-> [tr1 EXCEPT !.opens = @ + 1, !.opened = "true"]]
        ELSE [st |-> [st1 EXCEPT !.entry_position_ratio = 0],
              ex_side |-> OpenEffect(side, FALSE, leaves),
              clock |-> clock + duration,
              last_event |-> last_event,
              trace |-> [tr1 EXCEPT !.opens = @ + 1, !.opened = "false"]]

\* self.positions after the tick: open_position stores the record of the
\* symbol before it returns True; nothing else a tick calls writes the map.
Recorded(pos, trace) == IF trace.opened = "true" THEN pos \cup {Symbol} ELSE pos

\* The end of a tick: the strategy's fields, the executor's positions map,
\* the exchange, the clock, and the record of what the tick saw and did.
TickEnds(r, branch, reported) ==
    /\ in_position' = r.st.in_position
    /\ last_trade_time' = r.st.last_trade_time
    /\ entry_position_ratio' = r.st.entry_position_ratio
    /\ ratio_drop_value' = r.st.ratio_drop_value
    /\ ratio_drop_direction' = r.st.ratio_drop_direction
    /\ ex_side' = r.ex_side
    /\ clock' = r.clock
    /\ last_event' = r.last_event
    /\ tick_log' = [op |-> "tick", at |-> clock, was_in |-> in_position,
                    reported |-> reported, branch |-> branch,
                    trace |-> r.trace]
    /\ positions' = Recorded(positions, r.trace)
    /\ strategy_close' = IF branch = "close" /\ r.trace.closed
                          THEN <<[at |-> clock, reason |-> r.trace.reason]>>
                          ELSE strategy_close
    /\ UNCHANGED <<mdVars, opLocals, exVars, rcVars, fnVars, evVars>>

\* A tick that changes nothing but its trace.
Unchanged(trace) ==
    [st |-> StrategyState, ex_side |-> ex_side, clock |-> clock,
     last_event |-> last_event, trace |-> trace]

\* run(): a tick follows start-up or a sleep.
TickDue == tick_log.op # "tick"

\* A reconciliation that never takes the position for closed.
ExternallyClosed_Never(pos) == FALSE

\* A reconciliation that does not look at what the exchange reported.
ExternallyClosed_AnyReport(pos) == in_position

\* if self.in_position and not position
ExternallyClosed(pos) == in_position /\ pos = None

\* indicators.get('last_close') is present and not zero
Priced(indicators) == Get(indicators, "last_close", 0) # 0

\* _process_trading_logic when the awaited update_position_ratio raises:
\* the except clause logs and the tick is over.
TickFailed ==
    /\ TickDue
    /\ TickEnds(Unchanged(NoTrace), "error", "unknown")

\* _process_trading_logic when in_position is set and get_position gives
\* None: clear the flag, stamp last_trade_time, cancel the symbol's orders,
\* return.
TickReconcile ==
    /\ TickDue
    /\ \E pos \in TickPositions :
        /\ ExternallyClosed(pos)
        /\ TickEnds([st |-> [StrategyState EXCEPT !.in_position = FALSE,
                                                  !.last_trade_time = clock],
                     ex_side |-> ex_side, clock |-> clock,
                     last_event |-> clock,
                     trace |-> [NoTrace EXCEPT !.cancel_alls = 1]],
                    "reconcile", IF pos = None THEN "none" ELSE "position")

\* _process_trading_logic when the indicators are empty or carry no price:
\* return after calculate_technical_indicators.
TickNotReadyWith(snapshots) ==
    /\ TickDue
    /\ \E pos \in TickPositions, indicators \in snapshots :
        /\ ~ExternallyClosed(pos)
        /\ ~Priced(indicators)
        /\ TickEnds(Unchanged([NoTrace EXCEPT !.indicators = TRUE]),
                    IF indicators = << >> THEN "not_ready" ELSE "no_price",
                    IF pos = None THEN "none" ELSE "position")

\* The tick with the snapshots calculate_technical_indicators() can give.
TickNotReady == TickNotReadyWith(TickSnapshots)

\* _process_trading_logic with a position reported: should_close_position,
\* and close_position when it asks for a close.
TickCloseWith(snapshots) ==
    /\ TickDue
    /\ \E pos \in TickPositions \ {None}, indicators \in snapshots,
          position_ratios \in TickRatios,
          limit_ok \in BOOLEAN, limit_fills \in BOOLEAN, market_ok \in BOOLEAN :
        /\ Priced(indicators)
        /\ LET sc == should_close_position(pos, indicators, position_ratios,
                                           entry_position_ratio)
               tr == [NoTrace EXCEPT !.indicators = TRUE,
                                     !.evaluated = <<[predicate |-> "close",
                                                     result |-> sc.close]>>,
                                     !.reason = sc.reason]
               r == close_position(StrategyState, pos, sc.reason,
                                   position_ratios, limit_ok, limit_fills,
                                   market_ok, tr)
           IN  IF sc.close
               THEN TickEnds([st |-> r.st, ex_side |-> r.ex_side,
                              clock |-> clock, last_event |-> last_event,
                              trace |-> r.trace], "close", "position")
               ELSE TickEnds(Unchanged(tr), "hold", "position")

TickClose == TickCloseWith(TickSnapshots)

\* An interval test that lets an entry start one second early.
IntervalElapsed_Early(t) == t - last_trade_time >= MinTradeInterval - 1

\* if (current_time - self.last_trade_time) >= self.min_trade_interval
IntervalElapsed(t) == t - last_trade_time >= MinTradeInterval

\* A tick that evaluates the short predicate whatever the long one gave.
ShortEvaluated_Always(long_result) == TRUE

\* if self.should_open_long(indicators): ... else: if self.should_open_short
ShortEvaluated(long_result) == ~long_result

\* _process_trading_logic with no position reported and in_position clear:
\* past the interval the long predicate, then the short predicate, and the
\* entry of the first that holds; before it, nothing.
TickEntryWith(snapshots) ==
    /\ TickDue
    /\ ~in_position
    /\ \E indicators \in snapshots, position_ratios \in TickRatios,
          account_info \in TickAccounts, result \in BOOLEAN,
          leaves \in BOOLEAN, duration \in EntryDurations :
        /\ Priced(indicators)
        /\ LET tr == [NoTrace EXCEPT !.indicators = TRUE]
               long == should_open_long(indicators, StrategyState)
               short == should_open_short(indicators, long.st)
               st == IF ShortEvaluated(long.result) THEN short.st ELSE long.st
               evaluated ==
                   <<[predicate |-> "long", result |-> long.result]>>
                   \o (IF ShortEvaluated(long.result)
                       THEN <<[predicate |-> "short", result |-> short.result]>>
                       ELSE << >>)
               tr1 == [tr EXCEPT !.evaluated = evaluated]
           IN  IF ~IntervalElapsed(clock)
               THEN TickEnds(Unchanged(tr), "wait", "none")
               ELSE IF long.result
               THEN TickEnds(execute_trade("long", st, position_ratios,
                                 account_info, indicators.last_close, result,
                                 leaves, duration, tr1),
                             "entry", "none")
               ELSE IF short.result
               THEN TickEnds(execute_trade("short", st, position_ratios,
                                 account_info, indicators.last_close, result,
                                 leaves, duration, tr1),
                             "entry", "none")
               ELSE TickEnds([Unchanged(tr1) EXCEPT !.st = st],
                             "no_entry", "none")

TickEntry == TickEntryWith(TickSnapshots)

\* run(): await asyncio.sleep(1) after every tick.
Sleep ==
    /\ tick_log.op = "tick"
    /\ \E d \in SleepSteps :
        /\ clock + d <= MinTradeInterval + MaxElapsed
        /\ clock' = clock + d
    /\ tick_log' = [op |-> "sleep"]
    /\ UNCHANGED <<in_position, last_trade_time, entry_position_ratio,
                   ratio_drop_value, ratio_drop_direction, ex_side, last_event,
                   strategy_close>>
    /\ UNCHANGED <<mdVars, opVars, exVars, rcVars, fnVars, evVars>>

\* The position leaves the exchange without the strategy: a protective or
\* resting close order fills, a liquidation, the account owner.
ExternalClose ==
    /\ ex_side # "none"
    /\ ex_side' = "none"
    /\ UNCHANGED <<in_position, last_trade_time, entry_position_ratio,
                   ratio_drop_value, ratio_drop_direction, clock, last_event,
                   tick_log, strategy_close>>
    /\ UNCHANGED <<mdVars, opVars, exVars, rcVars, fnVars, evVars>>

StNext ==
    \/ TickFailed
    \/ TickReconcile
    \/ TickNotReady
    \/ TickClose
    \/ TickEntry
    \/ Sleep
    \/ ExternalClose

InitStrategy == EvQuiet /\ MdQuiet /\ OpQuiet /\ RcQuiet /\ FnQuiet /\ StQuiet

SpecStrategy == InitStrategy /\ [][StNext]_vars

(***************************************************************************)
(* TradingStrategy tick loop: properties                                   *)
(***************************************************************************)

\* The step is a tick.
IsTick == TickDue /\ tick_log'.op = "tick"

C12_EntryOnlyAfterInterval ==
    [][(IsTick /\ tick_log'.trace.entry # "none")
        => /\ tick_log'.reported = "none"
           /\ clock - last_trade_time >= MinTradeInterval
           /\ clock - last_event >= MinTradeInterval]_vars

\* C12 witness: an entry attempt (which failed) made exactly
\* min_trade_interval after an earlier successful entry or detected close.
C12_Witness ==
    /\ tick_log.op = "tick"
    /\ tick_log.trace.entry # "none"
    /\ tick_log.trace.opened = "false"
    /\ last_event >= MinTradeInterval
    /\ tick_log.at - last_event = MinTradeInterval

\* C13: in_position changes only in a tick; it becomes true only when an
\* entry started with in_position clear, no position reported and the
\* interval elapsed had open_position return True; it becomes false only
\* when a close attempt of the tick succeeded or when get_position reported
\* the position gone.
C13_LifecycleTransitions ==
    [][(in_position' # in_position)
        => /\ IsTick
           /\ IF in_position'
              THEN /\ tick_log'.trace.entry # "none"
                   /\ tick_log'.trace.opened = "true"
                   /\ tick_log'.reported = "none"
                   /\ clock - last_trade_time >= MinTradeInterval
              ELSE \/ /\ tick_log'.branch = "reconcile"
                      /\ tick_log'.reported = "none"
                   \/ /\ tick_log'.branch = "close"
                      /\ \E i \in DOMAIN tick_log'.trace.closes :
                            tick_log'.trace.closes[i].ok]_vars

\* C13 witness: a position entered by the strategy has been closed by a
\* close attempt of a later tick.
C13_Witness ==
    /\ tick_log.op = "tick"
    /\ tick_log.branch = "close"
    /\ tick_log.was_in
    /\ ~in_position
    /\ last_event >= MinTradeInterval
    /\ tick_log.at > last_event

C21_LongBeforeShort ==
    (tick_log.op = "tick" /\ tick_log.branch \in {"entry", "no_entry"})
        => LET evaluated == tick_log.trace.evaluated
           IN  /\ Len(evaluated) \in {1, 2}
               /\ evaluated[1].predicate = "long"
               /\ Len(evaluated) = 2
                    <=> ~evaluated[1].result
               /\ Len(evaluated) = 2 => evaluated[2].predicate = "short"
               /\ tick_log.trace.entry = "long" <=> evaluated[1].result
               /\ tick_log.trace.entry = "short"
                    <=> (Len(evaluated) = 2 /\ evaluated[2].result)
               /\ tick_log.trace.opens <= 1
               /\ tick_log.trace.opens = 1 => tick_log.trace.entry # "none"

\* C21 witness: a tick whose long predicate was true started the long entry
\* with one open_position call and did not evaluate the short predicate.
C21_Witness ==
    /\ tick_log.op = "tick"
    /\ tick_log.branch = "entry"
    /\ tick_log.trace.evaluated = <<[predicate |-> "long", result |-> TRUE]>>
    /\ tick_log.trace.entry = "long"
    /\ tick_log.trace.opens = 1

(***************************************************************************)
(* MarketDataManager: recent candles and the indicator engine              *)
(*                                                                         *)
(* A float is the exact fraction <<n, d>> in lowest terms with d > 0;      *)
(* the quotient 0/0 is NaN, a positive number over 0 is Inf. Rounding of   *)
(* the binary floats is not followed.                                      *)
(***************************************************************************)

NaN == <<0, 0>>

Inf == <<1, 0>>

Abs(x) == IF x < 0 THEN -x ELSE x

RECURSIVE Gcd(_, _)
Gcd(a, b) == IF b = 0 THEN a ELSE Gcd(b, a % b)

\* The fraction n/d in lowest terms; n/0 is NaN or +-Inf.
Frac(n, d) ==
    IF d = 0
    THEN (IF n = 0 THEN NaN ELSE IF n > 0 THEN Inf ELSE <<-1, 0>>)
    ELSE LET s == IF d < 0 THEN -1 ELSE 1
             g == Gcd(Abs(n), Abs(d))
         IN  <<(s * n) \div g, (s * d) \div g>>

Num(i) == <<i, 1>>

IsNumber(x) == x[2] > 0

Add(x, y) ==
    IF x = NaN \/ y = NaN THEN NaN
    ELSE Frac(x[1] * y[2] + y[1] * x[2], x[2] * y[2])

Sub(x, y) ==
    IF x = NaN \/ y = NaN THEN NaN
    ELSE Frac(x[1] * y[2] - y[1] * x[2], x[2] * y[2])

Mul(x, y) ==
    IF x = NaN \/ y = NaN THEN NaN
    ELSE Frac(x[1] * y[1], x[2] * y[2])

\* x / y as numpy divides floats: 0/0 is NaN, x/0 is +-Inf, x/Inf is 0.
Div(x, y) ==
    IF x = NaN \/ y = NaN THEN NaN
    ELSE Frac(x[1] * y[2], x[2] * y[1])

\* x < y for two numbers; a comparison with NaN is False.
Less(x, y) ==
    /\ x # NaN
    /\ y # NaN
    /\ x[1] * y[2] < y[1] * x[2]

\* The rows of a column or frame, in order.
Rows(f) == f \o << >>

\* sorted(self.candles_cache.keys(), reverse=True): the keys (integers)
\* from the greatest down.
SortedDesc(S) ==
    IF S = {} THEN << >>
    ELSE LET lo == Min(S)
             hi == Max(S)
             Cached(k) == k \in S
             asc == SelectSeq(Rows([i \in 1 .. (hi - lo + 1) |-> lo + i - 1]), Cached)
         IN  Rows([i \in 1 .. Len(asc) |-> asc[Len(asc) + 1 - i]])

\* s[:n]
Slice(s, n) ==
    LET stop == IF n >= 0
                THEN (IF n < Len(s) THEN n ELSE Len(s))
                ELSE (IF Len(s) + n > 0 THEN Len(s) + n ELSE 0)
    IN  SubSeq(s, 1, stop)

\* get_recent_candles(lookback): the candles of the first lookback
\* timestamps, newest first.
get_recent_candles(cache, lookback) ==
    LET ts == Slice(SortedDesc(DOMAIN cache), lookback)
    IN  Rows([i \in 1 .. Len(ts) |-> cache[ts[i]]])

\* A frame left in the order of its rows.
sort_values_Unsorted(rows) == rows

\* df.sort_values('timestamp'): ascending, rows of equal timestamp in
\* their given order.
sort_values(rows) ==
    LET Earlier(a, b) == a.timestamp < b.timestamp
    IN  SortSeq(rows, Earlier)

\* get_price_data_as_df(lookback): the rows of get_recent_candles, sorted.
get_price_data_as_df(cache, lookback) ==
    sort_values(get_recent_candles(cache, lookback))

\* df['close'] as floats
CloseSeries(df) == Rows([i \in 1 .. Len(df) |-> Num(df[i].close)])

\* series.diff()
Diff(x) ==
    Rows([i \in 1 .. Len(x) |-> IF i = 1 THEN NaN ELSE Sub(x[i], x[i - 1])])

\* delta.where(delta > 0, 0)
Gains(delta) ==
    Rows([i \in 1 .. Len(delta) |->
            IF Less(Num(0), delta[i]) THEN delta[i] ELSE Num(0)])

\* -delta.where(delta < 0, 0)
Losses(delta) ==
    Rows([i \in 1 .. Len(delta) |->
            IF Less(delta[i], Num(0)) THEN Sub(Num(0), delta[i]) ELSE Num(0)])

\* The rows a rolling window of the given size ends at row i with.
Window(i, window) == (i - window + 1) .. i

\* A rolling window gives a value once it holds window rows, none of them
\* NaN (min_periods defaults to the window size).
WindowFull(x, i, window) ==
    /\ i >= window
    /\ \A j \in Window(i, window) : x[j] # NaN

RECURSIVE SumOver(_, _)
SumOver(x, rows) ==
    IF rows = {} THEN Num(0)
    ELSE LET j == Max(rows) IN Add(SumOver(x, rows \ {j}), x[j])

\* series.rolling(window).mean()
RollingMean(x, window) ==
    Rows([i \in 1 .. Len(x) |->
        IF WindowFull(x, i, window)
        THEN Div(SumOver(x, Window(i, window)), Num(window))
        ELSE NaN])

\* series.rolling(window).min()
RollingMin(x, window) ==
    Rows([i \in 1 .. Len(x) |->
        IF WindowFull(x, i, window)
        THEN LET vals == {x[j] : j \in Window(i, window)}
             IN  CHOOSE v \in vals : \A u \in vals : ~Less(u, v)
        ELSE NaN])

\* series.rolling(window).max()
RollingMax(x, window) ==
    Rows([i \in 1 .. Len(x) |->
        IF WindowFull(x, i, window)
        THEN LET vals == {x[j] : j \in Window(i, window)}
             IN  CHOOSE v \in vals : \A u \in vals : ~Less(v, u)
        ELSE NaN])

\* rs = gain / loss; rsi = 100 - (100 / (1 + rs))
Rsi(gain, loss) ==
    Rows([i \in 1 .. Len(gain) |->
            LET rs == Div(gain[i], loss[i])
            IN  Sub(Num(100), Div(Num(100), Add(Num(1), rs)))])

\* The neutral midpoint (50.0, 50.0).
Neutral == <<Num(50), Num(50)>>

\* A data test that lets one candle fewer through.
StochDataShort_OffByOne(rows, period) == rows < period * 2 - 1

\* if len(df) < period*2
StochDataShort(rows, period) == rows < period * 2

\* A NaN test that lets every result through.
StochUndefined_Never(k_value, d_value) == FALSE

\* if np.isnan(k_value) or np.isnan(d_value)
StochUndefined(k_value, d_value) == k_value = NaN \/ d_value = NaN

\* calculate_stoch_rsi(period, smoothk, smoothd), period >= 1: the rolling
\* RSI, its min-max normalisation over the same window, the K and D
\* smoothings; the neutral pair for too few rows or a NaN result. With
\* period >= 1 and the data test passed no statement of the body raises.
calculate_stoch_rsi(cache, period, smoothk, smoothd) ==
    LET df == get_price_data_as_df(cache, period * 3)
        delta == Diff(CloseSeries(df))
        gain == RollingMean(Gains(delta), period)
        loss == RollingMean(Losses(delta), period)
        rsi == Rsi(gain, loss)
        rsi_min == RollingMin(rsi, period)
        rsi_max == RollingMax(rsi, period)
        stoch_rsi == Rows([i \in 1 .. Len(df) |->
                              Div(Mul(Num(100), Sub(rsi[i], rsi_min[i])),
                                  Sub(rsi_max[i], rsi_min[i]))])
        k == RollingMean(stoch_rsi, smoothk)
        d == RollingMean(k, smoothd)
    IN  IF StochDataShort(Len(df), period) THEN Neutral
        ELSE IF StochUndefined(k[Len(df)], d[Len(df)]) THEN Neutral
        ELSE <<k[Len(df)], d[Len(df)]>>

\* df['close'].ewm(span=period, adjust=False).mean() at row i
RECURSIVE Ewm(_, _, _)
Ewm(x, span, i) ==
    IF i = 1 THEN x[1]
    ELSE LET previous == Ewm(x, span, i - 1)
         IN  IF ~IsNumber(previous) THEN previous
             ELSE Add(Mul(Frac(span - 1, span + 1), previous),
                      Mul(Frac(2, span + 1), x[i]))

\* calculate_ema(df, period).iloc[-1]
calculate_ema(df, period) == Ewm(CloseSeries(df), period, Len(df))

\* lookback: int = 50
DefaultLookback == 50

\* period: int = 14, smoothk: int = 3, smoothd: int = 3
DefaultPeriod == 14
DefaultSmooth == 3

\* A data test that lets one candle fewer through.
TooFewCandles_OffByOne(rows, lookback) == rows < lookback - 1

\* if len(df) < lookback
TooFewCandles(rows, lookback) == rows < lookback

\* calculate_technical_indicators(lookback): {} for too few rows; {} from
\* the except clause when the frame is empty (iloc[-1] raises); otherwise
\* the snapshot. The candle's payload stands for close and volume alike.
calculate_technical_indicators(cache, lookback) ==
    LET df == get_price_data_as_df(cache, lookback)
        stoch == calculate_stoch_rsi(cache, DefaultPeriod, DefaultSmooth,
                                     DefaultSmooth)
    IN  IF TooFewCandles(Len(df), lookback) THEN << >>
        ELSE IF Len(df) = 0 THEN << >>
        ELSE [ema7 |-> calculate_ema(df, 7),
              ema25 |-> calculate_ema(df, 25),
              ema200 |-> calculate_ema(df, 200),
              price_change |-> Diff(CloseSeries(df))[Len(df)],
              stoch_k |-> stoch[1],
              stoch_d |-> stoch[2],
              last_close |-> Num(df[Len(df)].close),
              last_volume |-> Num(df[Len(df)].close)]

\* Candles in a drawn cache.
MaxCandles == 6

\* The payloads of the drawn candles.
IndicatorCloses == {1, 2, 3}

\* The minute of the i-th drawn candle: the feed leaves growing gaps.
GapTs(i) == (i * (i + 1)) \div 2

\* The cache holding the given payloads, oldest first.
CacheOf(closes) ==
    [t \in {GapTs(i) : i \in 1 .. Len(closes)} |->
        Candle(t, closes[CHOOSE i \in 1 .. Len(closes) : GapTs(i) = t])]

\* The caches the calls are made on: every cache of up to MaxCandles
\* candles, and flat windows one short of and at the sizes the default
\* arguments ask for.
IndicatorCaches ==
    {CacheOf(closes) :
        closes \in UNION {[1 .. n -> IndicatorCloses] : n \in 0 .. MaxCandles}}
    \cup {WarmCache(n) : n \in {DefaultPeriod * 2 - 1, DefaultPeriod * 2,
                                DefaultLookback - 1, DefaultLookback}}

Lookbacks == 0 .. (MaxCandles + 1)

IndicatorLookbacks == {0, 1, 2, 3, DefaultLookback}

StochArguments ==
    ({1, 2} \X {1, 2} \X {1, 2})
    \cup {<<DefaultPeriod, DefaultSmooth, DefaultSmooth>>}

\* What a strategy tick gets from calculate_technical_indicators() on this
\* cache: nothing when the call gives {}, otherwise any of the snapshots
\* (the values are not followed from the cache into the tick).
CachedSnapshots ==
    IF calculate_technical_indicators(candles_cache, DefaultLookback) = << >>
    THEN {<< >>}
    ELSE TickSnapshots

IndOthers == <<mdVars, opVars, exVars, rcVars, stVars, evVars>>

\* One operation is followed on each cache: none of them changes the
\* cache, so a second one would start from the same cache.
Idle == fn_call.op = "none" /\ tick_log.op = "none"

CallGetRecentCandles ==
    /\ Idle
    /\ \E lookback \in Lookbacks :
        fn_call' = [op |-> "get_recent_candles", lookback |-> lookback,
                    out |-> get_recent_candles(candles_cache, lookback)]
    /\ UNCHANGED IndOthers

CallGetPriceDataAsDf ==
    /\ Idle
    /\ \E lookback \in Lookbacks :
        fn_call' = [op |-> "get_price_data_as_df", lookback |-> lookback,
                    out |-> get_price_data_as_df(candles_cache, lookback)]
    /\ UNCHANGED IndOthers

CallCalculateStochRsi ==
    /\ Idle
    /\ \E a \in StochArguments :
        fn_call' = [op |-> "calculate_stoch_rsi", period |-> a[1],
                    smoothk |-> a[2], smoothd |-> a[3],
                    out |-> calculate_stoch_rsi(candles_cache, a[1], a[2], a[3])]
    /\ UNCHANGED IndOthers

CallCalculateTechnicalIndicators ==
    /\ Idle
    /\ \E lookback \in IndicatorLookbacks :
        fn_call' = [op |-> "calculate_technical_indicators",
                    lookback |-> lookback,
                    out |-> calculate_technical_indicators(candles_cache,
                                                           lookback)]
    /\ UNCHANGED IndOthers

\* The strategy tick on this cache.
TickFailedOnCache == Idle /\ TickFailed

TickReconcileOnCache == Idle /\ TickReconcile

TickNotReadyOnCache == Idle /\ TickNotReadyWith(CachedSnapshots)

TickCloseOnCache == Idle /\ TickCloseWith(CachedSnapshots)

TickEntryOnCache == Idle /\ TickEntryWith(CachedSnapshots)

IndNext ==
    \/ CallGetRecentCandles
    \/ CallGetPriceDataAsDf
    \/ CallCalculateStochRsi
    \/ CallCalculateTechnicalIndicators
    \/ TickFailedOnCache
    \/ TickReconcileOnCache
    \/ TickNotReadyOnCache
    \/ TickCloseOnCache
    \/ TickEntryOnCache

\* A running manager with one of the caches; the strategy before its first
\* entry, or holding the long position of an entry made a minute ago.
InitIndicators ==
    /\ OpQuiet
    /\ RcQuiet
    /\ FnQuiet
    /\ EvQuiet
    /\ md_phase = "running"
    /\ last_call = [op |-> "none"]
    /\ upserts = 0
    /\ candles_cache \in IndicatorCaches
    /\ latest_candle = IF DOMAIN candles_cache = {} THEN None
                       ELSE candles_cache[Max(DOMAIN candles_cache)]
    /\ in_position \in BOOLEAN
    /\ ex_side = IF in_position THEN "long" ELSE "none"
    /\ last_trade_time = IF in_position THEN MinTradeInterval ELSE 0
    /\ last_event = last_trade_time
    /\ clock = IF in_position THEN MinTradeInterval + 60 ELSE MinTradeInterval
    /\ entry_position_ratio = IF in_position THEN 500 ELSE 0
    /\ ratio_drop_value = 0
    /\ ratio_drop_direction = "none"
    /\ tick_log = [op |-> "none"]
    /\ strategy_close = << >>

SpecIndicators == InitIndicators /\ [][IndNext]_vars

(***************************************************************************)
(* MarketDataManager indicators: properties                                *)
(***************************************************************************)

\* C22: calculate_technical_indicators(lookback) gives an empty result
\* whenever fewer than lookback candles are cached; a strategy tick on such
\* a cache that gets as far as the snapshot receives the empty one; and a
\* tick that receives an empty snapshot ends without evaluating a
\* predicate, without submitting or cancelling an order, and with
\* in_position and last_trade_time as they were.
C22_NotReadyWhenShort ==
    [][/\ (/\ fn_call'.op = "calculate_technical_indicators"
            /\ CacheSize < fn_call'.lookback)
               => fn_call'.out = << >>
       /\ (IsTick /\ tick_log'.trace.indicators /\ CacheSize < DefaultLookback)
               => tick_log'.branch = "not_ready"
       /\ (IsTick /\ tick_log'.branch = "not_ready")
               => /\ tick_log'.trace = [NoTrace EXCEPT !.indicators = TRUE]
                  /\ in_position' = in_position
                  /\ last_trade_time' = last_trade_time
                  /\ ex_side' = ex_side]_vars

\* C22 witness: with a position held and a cache one candle short of the
\* default lookback, a tick received the empty snapshot and left the
\* strategy as it was.
C22_Witness ==
    /\ CacheSize = DefaultLookback - 1
    /\ tick_log.op = "tick"
    /\ tick_log.branch = "not_ready"
    /\ tick_log.was_in
    /\ in_position
    /\ last_trade_time = MinTradeInterval

\* C23: calculate_stoch_rsi(period) returns exactly (50.0, 50.0) whenever
\* fewer than 2*period candles are cached, and on every cache it returns
\* a pair of numbers (neither NaN nor infinite).
C23_StochRsiNeutralOrNumbers ==
    fn_call.op = "calculate_stoch_rsi"
        => /\ CacheSize < 2 * fn_call.period => fn_call.out = Neutral
           /\ IsNumber(fn_call.out[1])
           /\ IsNumber(fn_call.out[2])

\* C23 witness: on four candles whose RSI is 50 in both rows of the last
\* window (maximum equal to minimum) the call with period 2 returned the
\* neutral pair.
C23_Witness ==
    /\ candles_cache = CacheOf(<<1, 2, 1, 2>>)
    /\ fn_call.op = "calculate_stoch_rsi"
    /\ fn_call.period = 2
    /\ fn_call.smoothk = 1
    /\ fn_call.smoothd = 1
    /\ fn_call.out = Neutral

\* The timestamps of the rows, in order.
Timestamps(rows) == [i \in 1 .. Len(rows) |-> rows[i].timestamp]

\* The rows are min(lookback, cache size) cached candles, no timestamp
\* twice, and no cached candle left out is newer than one of them.
IsMostRecent(rows, lookback) ==
    /\ Len(rows) = (IF lookback < CacheSize THEN lookback ELSE CacheSize)
    /\ \A i \in 1 .. Len(rows) :
          /\ rows[i].timestamp \in DOMAIN candles_cache
          /\ rows[i] = candles_cache[rows[i].timestamp]
    /\ \A i, j \in 1 .. Len(rows) :
          i # j => rows[i].timestamp # rows[j].timestamp
    /\ \A t \in DOMAIN candles_cache :
          t \in {rows[i].timestamp : i \in 1 .. Len(rows)}
          \/ \A i \in 1 .. Len(rows) : t < rows[i].timestamp

\* C24 as stated: get_recent_candles(lookback) returns the min(lookback,
\* cache size) candles with the largest timestamps in ascending timestamp
\* order, without padding or duplicates.
C24_RecentAscending ==
    fn_call.op = "get_recent_candles"
        => /\ IsMostRecent(fn_call.out, fn_call.lookback)
           /\ \A i \in 1 .. (Len(fn_call.out) - 1) :
                 fn_call.out[i].timestamp < fn_call.out[i + 1].timestamp

\* C24 amended: get_recent_candles(lookback) returns the min(lookback,
\* cache size) candles with the largest timestamps, newest first, without
\* padding or duplicates; get_price_data_as_df(lookback) returns the same
\* candles as rows in ascending timestamp order.
C24_RecentNewestFirstFrameAscending ==
    /\ fn_call.op = "get_recent_candles"
        => /\ IsMostRecent(fn_call.out, fn_call.lookback)
           /\ \A i \in 1 .. (Len(fn_call.out) - 1) :
                 fn_call.out[i].timestamp > fn_call.out[i + 1].timestamp
    /\ fn_call.op = "get_price_data_as_df"
        => /\ IsMostRecent(fn_call.out, fn_call.lookback)
           /\ \A i \in 1 .. (Len(fn_call.out) - 1) :
                 fn_call.out[i].timestamp < fn_call.out[i + 1].timestamp

\* C24 witness: with four candles cached, the frame for a lookback of two
\* holds the two newest, older one first.
C24_Witness ==
    /\ CacheSize = 4
    /\ fn_call.op = "get_price_data_as_df"
    /\ fn_call.lookback = 2
    /\ Timestamps(fn_call.out) = <<GapTs(3), GapTs(4)>>

(***************************************************************************)
(* The event loop: TradingBot.start / cleanup and the BitgetWebsocket tasks *)
(***************************************************************************)

\* Connections lost per behaviour.
MaxDrops == 1
\* Connection attempts the endpoint refuses before it accepts again.
MaxRefusals == 1

\* Tasks one behaviour can create: start, its two tasks, and per socket
\* opened one _keep_alive and one _process_messages.
TaskLimit == 5 + 2 * MaxDrops

\* Candle updates the endpoint pushes on a subscribed socket.
PushedCandles == {Candle(1, c) : c \in Closes}

\* task.done()
Finished(t) == t.pc \in {"done", "cancelled"}

\* The loop dispatches callbacks: no coroutine is stuck between two of its
\* suspension points and run_until_complete(bot.start()) has not returned.
LoopRunning == ~loop_blocked /\ ~Finished(loop_tasks[1])

\* Task i can be resumed normally (a cancelled task is resumed with
\* CancelledError instead).
Runnable(i, coro) ==
    /\ LoopRunning
    /\ i \in DOMAIN loop_tasks
    /\ loop_tasks[i].coro = coro
    /\ ~Finished(loop_tasks[i])
    /\ ~loop_tasks[i].cancelling

\* asyncio.create_task(coro)
Spawn(tasks, coro) == Append(tasks, Task(coro))

At(tasks, i, pc, site) == [tasks EXCEPT ![i].pc = pc, ![i].site = site]

\* while not self.connected and not self.reconnecting
ConnectEnters(is_connected, is_reconnecting) == ~is_connected /\ ~is_reconnecting

\* Lines 114-122 of connect() on the task list: the subscriptions are sent
\* again through subscribe_kline, which starts a _process_messages task when
\* none is flagged as running, and a new _keep_alive task is created.
Reconnected(tasks) ==
    Spawn(IF subscriptions # << >> /\ ~processing
          THEN Spawn(tasks, "_process_messages")
          ELSE tasks,
          "_keep_alive")

\* websockets.connect returned: self.ws is the new socket, connected = True,
\* reconnecting = False, every subscription is sent on the new socket.
OpenSocket ==
    /\ ws_state' = "open"
    /\ connected' = TRUE
    /\ reconnecting' = FALSE
    /\ ex_subscribed' = (subscriptions # << >>)
    /\ UNCHANGED <<processing, subscriptions>>

\* The connection is lost: the socket's state is no longer OPEN and a
\* pending recv() raises ConnectionClosed, which _process_messages handles
\* with connected = False and a 5 s sleep before connect().
Receiving(tasks) ==
    {i \in DOMAIN tasks : /\ tasks[i].coro = "_process_messages"
                          /\ tasks[i].pc = "recv"
                          /\ ~tasks[i].cancelling}

ConnectionLost(tasks) ==
    [i \in DOMAIN tasks |->
        IF i \in Receiving(tasks)
        THEN [tasks[i] EXCEPT !.pc = "sleep5", !.site = "process"]
        ELSE tasks[i]]

\* The tasks that have neither finished nor been cancelled, start()'s own
\* task aside.
Live(tasks) ==
    {i \in DOMAIN tasks : i # 1 /\ ~Finished(tasks[i]) /\ ~tasks[i].cancelling}

evOthers == <<opVars, exVars, rcVars, tsVars>>

\* TradingBot.cleanup from its first line, on the task list and the socket
\* as they are now: is_running = False, then the first unfinished task of
\* self.tasks from position k on is cancelled and awaited; with none left,
\* ws.disconnect() calls ws.close() when there is a socket, and
\* _cleanup_done is set.
CleanupFrom(tasks, k, socket) ==
    LET rest == {j \in k .. Len(bot_tasks) : ~Finished(tasks[bot_tasks[j]])}
    IN  /\ is_running' = FALSE
        /\ IF rest # {}
           THEN LET j == Min(rest)
                IN  /\ loop_tasks' = [At(tasks, 1, "wait_for", "cleanup") EXCEPT ![bot_tasks[j]].cancelling = TRUE]
                    /\ awaiting' = j
                    /\ ws_state' = socket
                    /\ UNCHANGED <<cleanup_done, close_log>>
           ELSE IF socket # "none"
           THEN /\ loop_tasks' = At(tasks, 1, "closing", "cleanup")
                /\ ws_state' = "closed"
                /\ close_log' = Live(tasks)
                /\ awaiting' = 0
                /\ UNCHANGED cleanup_done
           ELSE /\ loop_tasks' = At(tasks, 1, "done", "cleanup")
                /\ cleanup_done' = TRUE
                /\ awaiting' = 0
                /\ ws_state' = socket
                /\ UNCHANGED close_log

\* start(): is_running = True; await self.ws.connect(), which begins an
\* attempt (nothing is connected yet).
Start ==
    /\ Runnable(1, "start")
    /\ loop_tasks[1].pc = "start"
    /\ ConnectEnters(connected, reconnecting)
    /\ is_running' = TRUE
    /\ reconnecting' = TRUE
    /\ loop_tasks' = At(loop_tasks, 1, "connecting", "start")
    /\ UNCHANGED <<loop_blocked, bot_tasks, cleanup_done, awaiting, close_log>>
    /\ UNCHANGED <<ws_state, connected, processing, subscriptions, ex_subscribed>>
    /\ UNCHANGED envVars
    /\ UNCHANGED <<mdVars, evOthers>>

\* start()'s connect() succeeded and the initial load (store_initial_candles,
\* market_data.initialize) returned: the two tasks are created and gathered.
StartConnected ==
    /\ Runnable(1, "start")
    /\ loop_tasks[1].pc = "connecting"
    /\ OpenSocket
    /\ LET tasks == Spawn(Spawn(Reconnected(loop_tasks), "subscribe_kline"), "run")
       IN  /\ loop_tasks' = At(tasks, 1, "gather", "start")
           /\ bot_tasks' = <<Len(tasks) - 1, Len(tasks)>>
    /\ UNCHANGED <<loop_blocked, is_running, cleanup_done, awaiting, close_log>>
    /\ UNCHANGED envVars
    /\ UNCHANGED <<mdVars, evOthers>>

\* start()'s connect() succeeded and the initial load raised: except
\* Exception logs, finally runs cleanup() with self.tasks still empty.
StartFailed ==
    /\ Runnable(1, "start")
    /\ loop_tasks[1].pc = "connecting"
    /\ connected' = TRUE
    /\ reconnecting' = FALSE
    /\ ex_subscribed' = (subscriptions # << >>)
    /\ CleanupFrom(Reconnected(loop_tasks), 1, "open")
    /\ UNCHANGED <<loop_blocked, bot_tasks, processing, subscriptions>>
    /\ UNCHANGED envVars
    /\ UNCHANGED <<mdVars, evOthers>>

\* websockets.connect returned in a task other than start()'s: lines 114-123,
\* then the caller goes on: _keep_alive pings and sleeps 20 s,
\* _process_messages tests is_connected() and waits in recv(),
\* subscribe_kline returns.
ConnectAccepted(i) ==
    /\ i # 1
    /\ LoopRunning
    /\ i \in DOMAIN loop_tasks
    /\ ~loop_tasks[i].cancelling
    /\ loop_tasks[i].pc = "connecting"
    /\ OpenSocket
    /\ loop_tasks' =
         At(Reconnected(loop_tasks), i,
            CASE loop_tasks[i].site = "keep_alive" -> "sleep20"
              [] loop_tasks[i].site = "process" -> "recv"
              [] loop_tasks[i].site = "subscribe" -> "done",
            "none")
    /\ UNCHANGED <<loop_blocked, botVars, envVars>>
    /\ UNCHANGED <<mdVars, evOthers>>

\* websockets.connect raised: except Exception logs and sleeps 5 s, with
\* reconnecting still True.
ConnectRefused(i) ==
    /\ LoopRunning
    /\ i \in DOMAIN loop_tasks
    /\ ~loop_tasks[i].cancelling
    /\ loop_tasks[i].pc = "connecting"
    /\ refusals < MaxRefusals
    /\ refusals' = refusals + 1
    /\ loop_tasks' = [loop_tasks EXCEPT ![i].pc = "retry_sleep"]
    /\ UNCHANGED <<loop_blocked, botVars, wsVars, feed, drops, signalled>>
    /\ UNCHANGED <<mdVars, evOthers>>

\* The 5 s sleep of connect() is over: finally sets reconnecting = False, the
\* loop test holds again (connected is set only inside the loop, which no
\* other task entered meanwhile) and the next attempt begins.
ConnectRetry(i) ==
    /\ LoopRunning
    /\ i \in DOMAIN loop_tasks
    /\ ~loop_tasks[i].cancelling
    /\ loop_tasks[i].pc = "retry_sleep"
    /\ ConnectEnters(connected, FALSE)
    /\ reconnecting' = TRUE
    /\ loop_tasks' = [loop_tasks EXCEPT ![i].pc = "connecting"]
    /\ UNCHANGED <<loop_blocked, botVars, envVars>>
    /\ UNCHANGED <<ws_state, connected, processing, subscriptions, ex_subscribed>>
    /\ UNCHANGED <<mdVars, evOthers>>

\* _keep_alive from the head of its loop. With the socket open it pings and
\* sleeps 20 s. Otherwise it sets connected = False and awaits connect():
\* when the loop test of connect() holds an attempt begins; when another
\* task holds reconnecting, connect() returns False at once and the loop
\* comes back to its head with nothing changed, without ever suspending.
KeepAliveLoop(i) ==
    IF ws_state = "open"
    THEN /\ loop_tasks' = At(loop_tasks, i, "sleep20", "none")
         /\ UNCHANGED <<connected, reconnecting, loop_blocked>>
    ELSE /\ connected' = FALSE
         /\ IF ConnectEnters(FALSE, reconnecting)
            THEN /\ reconnecting' = TRUE
                 /\ loop_tasks' = At(loop_tasks, i, "connecting", "keep_alive")
                 /\ UNCHANGED loop_blocked
            ELSE /\ loop_tasks' = At(loop_tasks, i, "spinning", "keep_alive")
                 /\ loop_blocked' = TRUE
                 /\ UNCHANGED reconnecting

\* A _keep_alive task is started, or its 20 s sleep is over.
KeepAlive(i) ==
    /\ Runnable(i, "_keep_alive")
    /\ loop_tasks[i].pc \in {"start", "sleep20"}
    /\ KeepAliveLoop(i)
    /\ UNCHANGED <<ws_state, processing, subscriptions, ex_subscribed>>
    /\ UNCHANGED <<botVars, envVars>>
    /\ UNCHANGED <<mdVars, evOthers>>

\* The connection is lost while _keep_alive sends its ping: send raises,
\* except Exception sets connected = False and sleeps 5 s.
KeepAlivePingFailed(i) ==
    /\ Runnable(i, "_keep_alive")
    /\ loop_tasks[i].pc \in {"start", "sleep20"}
    /\ ws_state = "open"
    /\ drops < MaxDrops
    /\ drops' = drops + 1
    /\ feed' = "interrupted"
    /\ ws_state' = "closed"
    /\ ex_subscribed' = FALSE
    /\ connected' = FALSE
    /\ loop_tasks' = At(ConnectionLost(loop_tasks), i, "sleep5", "keep_alive")
    /\ UNCHANGED <<loop_blocked, botVars, reconnecting, processing,
                   subscriptions, refusals, signalled>>
    /\ UNCHANGED <<mdVars, evOthers>>

\* The 5 s sleep of _keep_alive's except clause is over: await
\* self.connect(), and when that returns at once, the loop from its head.
KeepAliveReconnect(i) ==
    /\ Runnable(i, "_keep_alive")
    /\ loop_tasks[i].pc = "sleep5"
    /\ IF ConnectEnters(connected, reconnecting)
       THEN /\ reconnecting' = TRUE
            /\ loop_tasks' = At(loop_tasks, i, "connecting", "keep_alive")
            /\ UNCHANGED <<connected, loop_blocked>>
       ELSE KeepAliveLoop(i)
    /\ UNCHANGED <<ws_state, processing, subscriptions, ex_subscribed>>
    /\ UNCHANGED <<botVars, envVars>>
    /\ UNCHANGED <<mdVars, evOthers>>

\* subscribe_kline(symbol) as a task of its own: the symbol is appended; with
\* the socket open the request is sent and _process_messages is started
\* unless flagged as running; otherwise connect() is awaited.
SubscribeKline(i) ==
    /\ Runnable(i, "subscribe_kline")
    /\ loop_tasks[i].pc = "start"
    /\ subscriptions' = <<Symbol>>
    /\ IF ws_state = "open"
       THEN /\ ex_subscribed' = TRUE
            /\ loop_tasks' = At(IF ~processing
                                THEN Spawn(loop_tasks, "_process_messages")
                                ELSE loop_tasks, i, "done", "none")
            /\ UNCHANGED reconnecting
       ELSE /\ UNCHANGED ex_subscribed
            /\ IF ConnectEnters(connected, reconnecting)
               THEN /\ reconnecting' = TRUE
                    /\ loop_tasks' = At(loop_tasks, i, "connecting", "subscribe")
               ELSE /\ loop_tasks' = At(loop_tasks, i, "done", "none")
                    /\ UNCHANGED reconnecting
    /\ UNCHANGED <<loop_blocked, botVars, envVars>>
    /\ UNCHANGED <<ws_state, connected, processing>>
    /\ UNCHANGED <<mdVars, evOthers>>

\* while await self.is_connected() in _process_messages: recv() is awaited
\* on an open socket; otherwise the loop ends and finally clears
\* _processing.
ProcessLoop(i) ==
    IF ws_state = "open"
    THEN /\ loop_tasks' = At(loop_tasks, i, "recv", "none")
         /\ processing' = TRUE
    ELSE /\ loop_tasks' = At(loop_tasks, i, "done", "none")
         /\ processing' = FALSE

\* A _process_messages task is started: it returns at once when _processing
\* is set, otherwise sets it and enters its loop.
ProcessMessages(i) ==
    /\ Runnable(i, "_process_messages")
    /\ loop_tasks[i].pc = "start"
    /\ IF processing
       THEN /\ loop_tasks' = At(loop_tasks, i, "done", "none")
            /\ UNCHANGED processing
       ELSE ProcessLoop(i)
    /\ UNCHANGED <<loop_blocked, botVars, envVars>>
    /\ UNCHANGED <<ws_state, connected, reconnecting, subscriptions, ex_subscribed>>
    /\ UNCHANGED <<mdVars, evOthers>>

\* recv() returns a candle update of the subscribed channel:
\* _handle_kline_data calls market_data.update_latest_candle(candle) (the
\* await of its None result raises inside the per-candle try and is logged)
\* and the loop waits in recv() again.
ProcessCandle(i) ==
    /\ Runnable(i, "_process_messages")
    /\ loop_tasks[i].pc = "recv"
    /\ ws_state = "open"
    /\ ex_subscribed
    /\ \E candle \in PushedCandles : update_latest_candle(candle)
    /\ feed' = "delivering"
    /\ UNCHANGED <<md_phase, last_call, upserts>>
    /\ UNCHANGED <<loop_tasks, loop_blocked, botVars, wsVars, drops, refusals, signalled>>
    /\ UNCHANGED evOthers

\* The 5 s sleep after ConnectionClosed is over: await self.connect(), then
\* the loop test.
ProcessReconnect(i) ==
    /\ Runnable(i, "_process_messages")
    /\ loop_tasks[i].pc = "sleep5"
    /\ IF ConnectEnters(connected, reconnecting)
       THEN /\ reconnecting' = TRUE
            /\ loop_tasks' = At(loop_tasks, i, "connecting", "process")
            /\ UNCHANGED processing
       ELSE /\ ProcessLoop(i)
            /\ UNCHANGED reconnecting
    /\ UNCHANGED <<loop_blocked, botVars, envVars>>
    /\ UNCHANGED <<ws_state, connected, subscriptions, ex_subscribed>>
    /\ UNCHANGED <<mdVars, evOthers>>

\* TradingStrategy.run: one _process_trading_logic call, then a 1 s sleep.
StrategyRun(i) ==
    /\ Runnable(i, "run")
    /\ loop_tasks[i].pc \in {"start", "sleep1"}
    /\ loop_tasks' = At(loop_tasks, i, "sleep1", "none")
    /\ UNCHANGED <<loop_blocked, botVars, wsVars, envVars>>
    /\ UNCHANGED <<mdVars, evOthers>>

\* The transport loses the connection while no ping is being sent.
Drop ==
    /\ LoopRunning
    /\ is_running
    /\ ws_state = "open"
    /\ drops < MaxDrops
    /\ drops' = drops + 1
    /\ feed' = "interrupted"
    /\ ws_state' = "closed"
    /\ ex_subscribed' = FALSE
    /\ connected' = (connected /\ Receiving(loop_tasks) = {})
    /\ loop_tasks' = ConnectionLost(loop_tasks)
    /\ UNCHANGED <<loop_blocked, botVars, reconnecting, processing,
                   subscriptions, refusals, signalled>>
    /\ UNCHANGED <<mdVars, evOthers>>

\* signal_handler: task.cancel() for every task of the loop, while start()
\* waits in connect() or in gather().
Signal ==
    /\ LoopRunning
    /\ ~signalled
    /\ loop_tasks[1].pc \in {"connecting", "retry_sleep", "gather"}
    /\ signalled' = TRUE
    /\ loop_tasks' = [i \in DOMAIN loop_tasks |->
                        IF Finished(loop_tasks[i]) THEN loop_tasks[i]
                        ELSE [loop_tasks[i] EXCEPT !.cancelling = TRUE]]
    /\ UNCHANGED <<loop_blocked, botVars, wsVars, feed, drops, refusals>>
    /\ UNCHANGED <<mdVars, evOthers>>

\* A cancelled task other than start()'s is resumed with CancelledError,
\* which no except Exception clause catches: the finally clause of connect()
\* clears reconnecting, the finally clause of _process_messages clears
\* _processing, and the task ends.
TaskCancelled(i) ==
    /\ LoopRunning
    /\ i \in DOMAIN loop_tasks
    /\ i # 1
    /\ loop_tasks[i].cancelling
    /\ ~Finished(loop_tasks[i])
    /\ loop_tasks' = [loop_tasks EXCEPT ![i].pc = "cancelled"]
    /\ reconnecting' = (reconnecting /\ loop_tasks[i].pc \notin {"connecting", "retry_sleep"})
    /\ processing' = (processing /\ ~(loop_tasks[i].coro = "_process_messages" /\ loop_tasks[i].pc # "start"))
    /\ UNCHANGED <<loop_blocked, botVars, envVars>>
    /\ UNCHANGED <<ws_state, connected, subscriptions, ex_subscribed>>
    /\ UNCHANGED <<mdVars, evOthers>>

\* start() is resumed with CancelledError in connect() or gather(): except
\* asyncio.CancelledError logs, finally runs cleanup().
StartCancelled ==
    /\ LoopRunning
    /\ loop_tasks[1].cancelling
    /\ loop_tasks[1].pc \in {"connecting", "retry_sleep", "gather"}
    /\ reconnecting' = (reconnecting /\ loop_tasks[1].pc = "gather")
    /\ CleanupFrom([loop_tasks EXCEPT ![1].cancelling = FALSE], 1, ws_state)
    /\ UNCHANGED <<loop_blocked, bot_tasks, envVars>>
    /\ UNCHANGED <<connected, processing, subscriptions, ex_subscribed>>
    /\ UNCHANGED <<mdVars, evOthers>>

\* cleanup: the awaited task has finished; on to the next task of self.tasks
\* or to ws.disconnect().
CleanupAwaited ==
    /\ LoopRunning
    /\ loop_tasks[1].pc = "wait_for"
    /\ Finished(loop_tasks[bot_tasks[awaiting]])
    /\ CleanupFrom(loop_tasks, awaiting + 1, ws_state)
    /\ UNCHANGED <<loop_blocked, bot_tasks, envVars>>
    /\ UNCHANGED <<connected, reconnecting, processing, subscriptions, ex_subscribed>>
    /\ UNCHANGED <<mdVars, evOthers>>

\* ws.close() returned in disconnect(): connected = False; cleanup sets
\* _cleanup_done, start() returns and run_until_complete with it.
CleanupClosed ==
    /\ LoopRunning
    /\ loop_tasks[1].pc = "closing"
    /\ connected' = FALSE
    /\ cleanup_done' = TRUE
    /\ loop_tasks' = At(loop_tasks, 1, "done", "cleanup")
    /\ UNCHANGED <<loop_blocked, bot_tasks, is_running, awaiting, close_log>>
    /\ UNCHANGED <<ws_state, reconnecting, processing, subscriptions, ex_subscribed>>
    /\ UNCHANGED envVars
    /\ UNCHANGED <<mdVars, evOthers>>

\* The steps of task i.
TaskStep(i) ==
    \/ ConnectAccepted(i)
    \/ ConnectRefused(i)
    \/ ConnectRetry(i)
    \/ KeepAlive(i)
    \/ KeepAlivePingFailed(i)
    \/ KeepAliveReconnect(i)
    \/ SubscribeKline(i)
    \/ ProcessMessages(i)
    \/ ProcessCandle(i)
    \/ ProcessReconnect(i)
    \/ StrategyRun(i)
    \/ TaskCancelled(i)

\* The steps of the task that runs start().
StartStep ==
    \/ Start
    \/ StartConnected
    \/ StartFailed
    \/ StartCancelled
    \/ CleanupAwaited
    \/ CleanupClosed

BotNext ==
    \/ StartStep
    \/ \E i \in 1 .. TaskLimit : TaskStep(i)
    \/ Drop
    \/ Signal

InitBot ==
    /\ EvQuiet
    /\ MdQuiet
    /\ OpQuiet
    /\ RcQuiet
    /\ StQuiet
    /\ FnQuiet

SpecBot == InitBot /\ [][BotNext]_vars

\* The loop resumes every task whose await has completed, timers expire,
\* and a connection attempt is answered; losing the connection and the
\* signal are up to the environment.
BotFairness ==
    /\ WF_vars(StartStep)
    /\ \A i \in 1 .. TaskLimit : WF_vars(TaskStep(i))

SpecBotFair == SpecBot /\ BotFairness

(***************************************************************************)
(* The event loop: properties                                              *)
(***************************************************************************)

\* C26: while the bot runs, every loss of the feed connection is followed,
\* the endpoint accepting connections again after boundedly many refusals,
\* by a state in which the socket is open again, the kline subscription
\* was sent on it, a _process_messages loop waits in recv() and has
\* delivered a candle to the cache (or by the shutdown of the bot).
C26_DeliveryResumes ==
    (feed = "interrupted" /\ is_running /\ ~signalled)
        ~> \/ /\ ws_state = "open"
              /\ ex_subscribed
              /\ Receiving(loop_tasks) # {}
              /\ feed = "delivering"
              /\ latest_candle \in PushedCandles
           \/ ~is_running
           \/ signalled

\* C27: when cleanup has completed, every task that was started besides
\* start() itself (_keep_alive, _process_messages, subscribe_kline, run) has
\* finished or has been cancelled, and ws.close() was called with no task
\* left that was neither finished nor cancelled.
C27_TasksEndedAtCleanup ==
    cleanup_done
        => /\ \A i \in DOMAIN loop_tasks :
                i # 1 => (Finished(loop_tasks[i]) \/ loop_tasks[i].cancelling)
           /\ close_log = {}

\* C28: once start() has created its tasks and waits in gather(), one of the
\* tasks of the loop runs OrderExecutor.check_pending_orders.
C28_ReconciliationScheduled ==
    loop_tasks[1].pc = "gather"
        => \E i \in DOMAIN loop_tasks : loop_tasks[i].coro = "check_pending_orders"

\* C33: every iteration of the _keep_alive loop ends at a suspension point:
\* no _keep_alive task comes back to the head of its loop without having
\* suspended, so the event loop is never held by it and the task that is
\* reconnecting can go on.
C33_KeepAliveYields ==
    /\ \A i \in DOMAIN loop_tasks :
            loop_tasks[i].coro = "_keep_alive" => loop_tasks[i].pc # "spinning"
    /\ ~loop_blocked

\* The tasks of the coroutine that have not finished.
Alive(coro) ==
    {i \in DOMAIN loop_tasks : loop_tasks[i].coro = coro /\ ~Finished(loop_tasks[i])}

\* C34: at any time at most one _keep_alive task is alive and at most one
\* _process_messages task is inside its loop.
C34_OneKeepAliveOneProcessor ==
    /\ Cardinality(Alive("_keep_alive")) <= 1
    /\ Cardinality({i \in Alive("_process_messages") : loop_tasks[i].pc # "start"}) <= 1

(***************************************************************************)
(* The strategy and the executor's positions map: properties               *)
(***************************************************************************)

====
